---- MODULE Spec2Model ----
(***************************************************************************)
(* SimpleEQ: the Fifo ring buffer, the per-channel sample collector, the   *)
(* cut-filter cascade and the update/processing path of the processor,     *)
(* from SimpleEQ/Source/PluginProcessor.h and PluginProcessor.cpp.         *)
(***************************************************************************)
EXTENDS Integers, Sequences, FiniteSets, TLC

VARIABLES
    fifo,       \* Fifo<T>: [buffers, validStart, validEnd]
    out,        \* the consumer's output argument of pull (T& t)
    hist,       \* history of the calls made on the Fifo
    last,       \* the last call on the Fifo: its kind, result and pre-state
    prod,       \* the producer thread inside Fifo::push
    cons,       \* the consumer thread inside Fifo::pull
    log,        \* the items pushed and pulled by the two threads
    scsf,       \* a SingleChannelSampleFifo<juce::AudioBuffer<float>>
    chist,      \* history of the calls made on the collector
    cutFilter,  \* a CutFilter: 8 Filter stages and their bypass flags
    cutCall,    \* the last call on cutFilter
    apvts,      \* the parameter values, by parameter name
    host,       \* what the host has done: writes, blocks, prepares, samples
    audio,      \* the thread in prepareToPlay / processBlock and its locals
    leftChain,  \* MonoChain leftChain
    rightChain, \* MonoChain rightChain
    buffer,     \* the juce::AudioBuffer<float> handed to processBlock
    leftChannelFifo,    \* SingleChannelSampleFifo{ Channel::Left }
    rightChannelFifo    \* SingleChannelSampleFifo{ Channel::Right }

fifoVars == <<fifo, out, hist, last, prod, cons, log>>

collectorVars == <<scsf, chist>>

cutVars == <<cutFilter, cutCall>>

procVars == <<apvts, host, audio, leftChain, rightChain, buffer,
              leftChannelFifo, rightChannelFifo>>

vars == <<fifoVars, collectorVars, cutVars, procVars>>

(***************************************************************************)
(* Bounds of the model.                                                    *)
(***************************************************************************)
MaxPushCalls == 33
MaxPullCalls == 33
MaxBlockSize == 2
MaxUpdateLen == 3
MaxSamples == 10
MaxPrepares == 2
MaxApplies == 2
MaxProcessed == 2
MaxIndex == 1
MaxWrites == 1
MaxBlocks == 1
MaxCalls == 2
MaxFill == 32
MaxPulls == 1

(***************************************************************************)
(* Fifo<T> and the juce::AbstractFifo it owns (PluginProcessor.h 24-84).   *)
(***************************************************************************)
Capacity == 30

Min(a, b) == IF a <= b THEN a ELSE b

\* A default-constructed element of the buffers array.
DefaultT == 0

NewFifo(t0) ==
    [buffers |-> [i \in 0 .. Capacity - 1 |-> t0],
     validStart |-> 0,
     validEnd |-> 0]

\* juce::AbstractFifo::getNumReady
getNumReady(vs, ve) ==
    IF ve >= vs THEN ve - vs ELSE Capacity - (vs - ve)

\* juce::AbstractFifo::getFreeSpace
getFreeSpace(vs, ve) == Capacity - getNumReady(vs, ve) - 1

\* A prepareToWrite that hands out the last free slot as well.
prepareToWriteNoGap(numToWrite, vs, ve) ==
    LET freeSpace == IF ve >= vs THEN Capacity - (ve - vs) ELSE vs - ve
        n == Min(numToWrite, freeSpace)
        b1 == Min(Capacity - ve, n)
    IN  IF n <= 0
        THEN [startIndex1 |-> 0, blockSize1 |-> 0,
              startIndex2 |-> 0, blockSize2 |-> 0]
        ELSE [startIndex1 |-> ve, blockSize1 |-> b1,
              startIndex2 |-> 0,
              blockSize2 |-> IF n - b1 <= 0 THEN 0 ELSE Min(n - b1, vs)]

\* juce::AbstractFifo::prepareToWrite, called by fifo.write(numToWrite)
prepareToWrite(numToWrite, vs, ve) ==
    LET freeSpace == IF ve >= vs THEN Capacity - (ve - vs) ELSE vs - ve
        n == Min(numToWrite, freeSpace - 1)
        b1 == Min(Capacity - ve, n)
    IN  IF n <= 0
        THEN [startIndex1 |-> 0, blockSize1 |-> 0,
              startIndex2 |-> 0, blockSize2 |-> 0]
        ELSE [startIndex1 |-> ve, blockSize1 |-> b1,
              startIndex2 |-> 0,
              blockSize2 |-> IF n - b1 <= 0 THEN 0 ELSE Min(n - b1, vs)]

\* juce::AbstractFifo::finishedWrite, run when the ScopedWrite leaves scope
finishedWrite(ve, numWritten) ==
    LET newEnd == ve + numWritten
    IN  IF newEnd >= Capacity THEN newEnd - Capacity ELSE newEnd

\* juce::AbstractFifo::prepareToRead, called by fifo.read(numWanted)
prepareToRead(numWanted, vs, ve) ==
    LET numReady == IF ve >= vs THEN ve - vs ELSE Capacity - (vs - ve)
        n == Min(numWanted, numReady)
        b1 == Min(Capacity - vs, n)
    IN  IF n <= 0
        THEN [startIndex1 |-> 0, blockSize1 |-> 0,
              startIndex2 |-> 0, blockSize2 |-> 0]
        ELSE [startIndex1 |-> vs, blockSize1 |-> b1,
              startIndex2 |-> 0,
              blockSize2 |-> IF n - b1 <= 0 THEN 0 ELSE Min(n - b1, ve)]

\* juce::AbstractFifo::finishedRead, run when the ScopedRead leaves scope
finishedRead(vs, numRead) ==
    LET newStart == vs + numRead
    IN  IF newStart >= Capacity THEN newStart - Capacity ELSE newStart

\* A push that stores the item although no slot is free.
pushOverwriting(f, t) ==
    LET write == prepareToWrite(1, f.validStart, f.validEnd)
    IN  [fifo |-> [f EXCEPT !.buffers[f.validEnd] = t,
                            !.validEnd = finishedWrite(@, write.blockSize1)],
         ok |-> write.blockSize1 > 0]

\* Fifo::push: [fifo |-> the Fifo after the call, ok |-> the value returned]
push(f, t) ==
    LET write == prepareToWrite(1, f.validStart, f.validEnd)
    IN  IF write.blockSize1 > 0
        THEN [fifo |-> [f EXCEPT
                          !.buffers[write.startIndex1] = t,
                          !.validEnd = finishedWrite(@, write.blockSize1
                                                        + write.blockSize2)],
              ok |-> TRUE]
        ELSE [fifo |-> [f EXCEPT
                          !.validEnd = finishedWrite(@, write.blockSize1
                                                        + write.blockSize2)],
              ok |-> FALSE]

\* A pull that copies the slot under the read cursor even when it fails.
pullAlwaysCopying(f, t) ==
    LET read == prepareToRead(1, f.validStart, f.validEnd)
    IN  [fifo |-> [f EXCEPT !.validStart = finishedRead(@, read.blockSize1)],
         t |-> f.buffers[f.validStart],
         ok |-> read.blockSize1 > 0]

\* Fifo::pull: t is the output argument after the call
pull(f, t) ==
    LET read == prepareToRead(1, f.validStart, f.validEnd)
    IN  IF read.blockSize1 > 0
        THEN [fifo |-> [f EXCEPT
                          !.validStart = finishedRead(@, read.blockSize1
                                                        + read.blockSize2)],
              t |-> f.buffers[read.startIndex1],
              ok |-> TRUE]
        ELSE [fifo |-> [f EXCEPT
                          !.validStart = finishedRead(@, read.blockSize1
                                                        + read.blockSize2)],
              t |-> t,
              ok |-> FALSE]

\* Fifo::getNumAvailableForReading
getNumAvailableForReading(f) == getNumReady(f.validStart, f.validEnd)

(***************************************************************************)
(* juce::AudioBuffer<float>: numChannels channels of numSamples samples.   *)
(* Channel c, sample i is data[c + 1][i + 1].                              *)
(***************************************************************************)
\* A sample is a tuple of integers: <<k>> is the raw sample k, <<0>> silence.
Zeros(n) == [i \in 1 .. n |-> <<0>>]

\* A default-constructed juce::AudioBuffer<float>
EmptyBuffer == [numChannels |-> 0, numSamples |-> 0, data |-> <<>>]

\* AudioBuffer::setSize(newNumChannels, newNumSamples, false, true, true)
\* followed or not by clear(): a zeroed buffer of that size
ClearedBuffer(newNumChannels, newNumSamples) ==
    [numChannels |-> newNumChannels,
     numSamples |-> newNumSamples,
     data |-> [c \in 1 .. newNumChannels |-> Zeros(newNumSamples)]]

\* AudioBuffer::setSample(destChannel, destSample, newValue)
setSample(b, destChannel, destSample, newValue) ==
    [b EXCEPT !.data[destChannel + 1][destSample + 1] = newValue]

\* Fifo<AudioBuffer<float>>::prepare(numChannels, numSamples): every slot gets
\* setSize(numChannels, false, true, true), whose second argument (the
\* number of samples) is false = 0, and is then cleared; the cursors of the
\* AbstractFifo are left alone.
prepareFifo(f, numChannels, numSamples) ==
    [f EXCEPT !.buffers = [i \in 0 .. Capacity - 1 |->
                             ClearedBuffer(numChannels, 0)]]

(***************************************************************************)
(* SingleChannelSampleFifo (PluginProcessor.h 86-150).                     *)
(***************************************************************************)
Right == 0

Left == 1

\* SingleChannelSampleFifo(Channel ch)
NewCollector(ch) ==
    [channelToUse |-> ch,
     fifoIndex |-> 0,
     audioBufferFifo |-> NewFifo(EmptyBuffer),
     bufferToFill |-> EmptyBuffer,
     prepared |-> FALSE,
     size |-> 0]

\* SingleChannelSampleFifo::prepare, up to the resize of bufferToFill
prepareBegin(c, bufferSize) ==
    [c EXCEPT !.prepared = FALSE,
              !.size = bufferSize,
              !.bufferToFill = ClearedBuffer(1, bufferSize)]

\* A prepare that returns without raising the prepared flag.
prepareEndUnflagged(c, bufferSize) ==
    [c EXCEPT !.audioBufferFifo = prepareFifo(@, 1, bufferSize),
              !.fifoIndex = 0]

\* SingleChannelSampleFifo::prepare, from audioBufferFifo.prepare on
prepareEnd(c, bufferSize) ==
    [c EXCEPT !.audioBufferFifo = prepareFifo(@, 1, bufferSize),
              !.fifoIndex = 0,
              !.prepared = TRUE]

\* SingleChannelSampleFifo::prepare
prepareCollector(c, bufferSize) ==
    prepareEnd(prepareBegin(c, bufferSize), bufferSize)

\* SingleChannelSampleFifo::update: the two assertions at its entry
updateAsserts(c, audioBuffer) ==
    /\ c.prepared
    /\ audioBuffer.numChannels > c.channelToUse

\* A pushNextSampleIntoFifo that hands the block over as soon as it is full.
pushNextSampleEagerly(st, sample) ==
    LET c == st.c
        c1 == [c EXCEPT !.bufferToFill = setSample(@, 0, c.fifoIndex, sample),
                        !.fifoIndex = @ + 1]
        full == c1.fifoIndex = c1.bufferToFill.numSamples
        r == push(c1.audioBufferFifo, c1.bufferToFill)
    IN  IF full
        THEN [c |-> [c1 EXCEPT !.audioBufferFifo = r.fifo, !.fifoIndex = 0],
              attempts |-> Append(st.attempts,
                                  [block |-> c1.bufferToFill, ok |-> r.ok])]
        ELSE [c |-> c1, attempts |-> st.attempts]

\* A pushNextSampleIntoFifo that stores the sample only when it did not push.
pushNextSampleOrBlock(st, sample) ==
    LET c == st.c
        full == c.fifoIndex = c.bufferToFill.numSamples
        r == push(c.audioBufferFifo, c.bufferToFill)
    IN  IF full
        THEN [c |-> [c EXCEPT !.audioBufferFifo = r.fifo, !.fifoIndex = 0],
              attempts |-> Append(st.attempts,
                                  [block |-> c.bufferToFill, ok |-> r.ok])]
        ELSE [c |-> [c EXCEPT
                       !.bufferToFill = setSample(@, 0, c.fifoIndex, sample),
                       !.fifoIndex = @ + 1],
              attempts |-> st.attempts]

\* A pushNextSampleIntoFifo that keeps a block the Fifo refused and offers
\* it again at the next sample, which it drops.
pushNextSampleRetrying(st, sample) ==
    LET c == st.c
        full == c.fifoIndex = c.bufferToFill.numSamples
        r == push(c.audioBufferFifo, c.bufferToFill)
        attempts == Append(st.attempts,
                           [block |-> c.bufferToFill, ok |-> r.ok])
    IN  IF full /\ ~r.ok
        THEN [c |-> c, attempts |-> attempts]
        ELSE LET c1 == IF full
                       THEN [c EXCEPT !.audioBufferFifo = r.fifo,
                                      !.fifoIndex = 0]
                       ELSE c
             IN  [c |-> [c1 EXCEPT
                           !.bufferToFill =
                               setSample(@, 0, c1.fifoIndex, sample),
                           !.fifoIndex = @ + 1],
                  attempts |-> IF full THEN attempts ELSE st.attempts]

\* SingleChannelSampleFifo::pushNextSampleIntoFifo.  st.c is the collector,
\* st.attempts the pushes made so far by the running update, each with the
\* block offered and the value push returned (which the code ignores).
pushNextSampleIntoFifo(st, sample) ==
    LET c == st.c
        full == c.fifoIndex = c.bufferToFill.numSamples
        r == push(c.audioBufferFifo, c.bufferToFill)
        c1 == IF full
              THEN [c EXCEPT !.audioBufferFifo = r.fifo, !.fifoIndex = 0]
              ELSE c
    IN  [c |-> [c1 EXCEPT
                  !.bufferToFill = setSample(@, 0, c1.fifoIndex, sample),
                  !.fifoIndex = @ + 1],
         attempts |-> IF full
                      THEN Append(st.attempts,
                                  [block |-> c.bufferToFill, ok |-> r.ok])
                      ELSE st.attempts]

\* SingleChannelSampleFifo::update, the loop from sample i on
RECURSIVE updateLoop(_, _, _)
updateLoop(st, channel, i) ==
    IF i < Len(channel)
    THEN updateLoop(pushNextSampleIntoFifo(st, channel[i + 1]), channel, i + 1)
    ELSE st

\* SingleChannelSampleFifo::update
updateCollector(c, audioBuffer) ==
    updateLoop([c |-> c, attempts |-> <<>>],
               audioBuffer.data[c.channelToUse + 1], 0)

\* The host's next stereo block of n samples: sample k of the stream is <<k>>
\* on channel 0 and <<100 + k>> on channel 1.
StereoBlock(first, n) ==
    [numChannels |-> 2,
     numSamples |-> n,
     data |-> << [i \in 1 .. n |-> <<first + i>>],
                 [i \in 1 .. n |-> <<100 + first + i>>] >>]

NoHist ==
    [pushCalls |-> 0, pushed |-> <<>>, pushFails |-> 0,
     pullCalls |-> 0, pulled |-> <<>>, mixed |-> FALSE]

\* fed: samples passed to update since construction; prepares: prepare calls;
\* since the last prepare: samples received, input (the collector's channel),
\* attempts (the pushes, in order), pulled (the blocks pulled); op: the last
\* call, bufferSize: the argument of the last prepare.
NoCollectorHist ==
    [fed |-> 0, prepares |-> 0, samples |-> 0, input |-> <<>>,
     attempts |-> <<>>, pulled |-> <<>>, op |-> "none", bufferSize |-> 0]

(***************************************************************************)
(* Coefficients, Filter and CutFilter (PluginProcessor.h 152-279).         *)
(* A Coefficients object is written as the tuple of what it was designed   *)
(* from: two objects are equal when their tuples are.                      *)
(***************************************************************************)
NUM_FILTER_SLOPES == 8

Stages == 0 .. NUM_FILTER_SLOPES - 1

\* juce::dsp::IIR::Filter(): coefficients (new Coefficients (1, 0, 1, 0))
DefaultCoefficients == <<1, 0, 1, 0>>

\* juce::dsp::IIR::Coefficients::getFilterOrder: the pass-through set of a
\* new Filter is first order, every designed section is second order
getFilterOrder(c) == IF c = DefaultCoefficients THEN 1 ELSE 2

\* juce::dsp::IIR::Filter(): default coefficients, then reset()
NewFilter ==
    [coefficients |-> DefaultCoefficients,
     order |-> getFilterOrder(DefaultCoefficients),
     state |-> <<>>]

\* CutFilter: a ProcessorChain of 8 Filters, none bypassed
NewCutFilter ==
    [filters |-> [i \in Stages |-> NewFilter],
     bypassed |-> [i \in Stages |-> FALSE]]

HighPass == 3

LowPass == 4

\* lowCutButterworthMethod / highCutButterworthMethod:
\* juce::dsp::FilterDesign::designIIR{High,Low}passHighOrderButterworthMethod
\* returns order / 2 second-order sections for an even order
ButterworthMethod(kind, frequency, sampleRate, order) ==
    [i \in 1 .. order \div 2 |-> <<kind, frequency, sampleRate, order, i - 1>>]

\* A makeCutFilter that asks for a design one section short.
makeCutFilterOneShort(cutFreq, sampleRate, slope, filterDesignMethod) ==
    ButterworthMethod(filterDesignMethod, cutFreq, sampleRate, 2 * slope)

\* A makeCutFilter that asks for the steepest design whatever the slope.
makeCutFilterSteepest(cutFreq, sampleRate, slope, filterDesignMethod) ==
    ButterworthMethod(filterDesignMethod, cutFreq, sampleRate,
                      2 * NUM_FILTER_SLOPES)

\* makeCutFilter
makeCutFilter(cutFreq, sampleRate, slope, filterDesignMethod) ==
    ButterworthMethod(filterDesignMethod, cutFreq, sampleRate, 2 * (slope + 1))

\* An updateCoefficients that also clears the Filter's delay line.
updateCoefficientsResetting(filter, replacements) ==
    [filter EXCEPT !.coefficients = replacements, !.state = <<>>]

\* updateCoefficients(old, replacements): *old = *replacements, on the
\* Coefficients object of the Filter
updateCoefficients(filter, replacements) ==
    [filter EXCEPT !.coefficients = replacements]

\* juce::ReferenceCountedArray::operator[]: the object at index, a null
\* pointer when index is past the end
NullCoefficients == <<>>

getObjectPointer(coefficients, index) ==
    IF index < Len(coefficients)
    THEN coefficients[index + 1]
    ELSE NullCoefficients

\* update<Index>(chain, coefficients)
update(Index, chain, coefficients) ==
    [chain EXCEPT
       !.filters[Index] =
           updateCoefficients(@, getObjectPointer(coefficients, Index)),
       !.bypassed[Index] = FALSE]

\* A switch with a break after every case: update<slope> alone.
fallThroughWithBreaks(Index, chain, coefficients) ==
    update(Index, chain, coefficients)

\* The cases of the switch from case `slope` down to Slope_12, none with a
\* break: update<Index>, update<Index - 1>, ..., update<0>
RECURSIVE fallThrough(_, _, _)
fallThrough(Index, chain, coefficients) ==
    IF Index < 0
    THEN chain
    ELSE fallThrough(Index - 1, update(Index, chain, coefficients), coefficients)

\* An applyCoefficientsToCutFilter without the eight setBypassed<i>(true).
applyWithoutBypassingAll(chain, cutCoefficients, slope, isOff) ==
    IF isOff
    THEN [chain EXCEPT !.bypassed = [i \in Stages |-> TRUE]]
    ELSE fallThrough(slope, chain, cutCoefficients)

\* An applyCoefficientsToCutFilter that looks at isOff after the switch.
applyThenBypassWhenOff(chain, cutCoefficients, slope, isOff) ==
    LET allBypassed == [chain EXCEPT !.bypassed = [i \in Stages |-> TRUE]]
        updated == fallThrough(slope, allBypassed, cutCoefficients)
    IN  IF isOff
        THEN [updated EXCEPT !.bypassed = [i \in Stages |-> TRUE]]
        ELSE updated

\* applyCoefficientsToCutFilter
applyCoefficientsToCutFilter(chain, cutCoefficients, slope, isOff) ==
    LET allBypassed == [chain EXCEPT !.bypassed = [i \in Stages |-> TRUE]]
    IN  IF isOff
        THEN allBypassed
        ELSE fallThrough(slope, allBypassed, cutCoefficients)

\* juce::dsp::IIR::Filter::reset
reset(filter) ==
    [filter EXCEPT !.order = getFilterOrder(filter.coefficients),
                   !.state = <<>>]

\* juce::dsp::IIR::Filter::check, at the start of every process call
check(filter) ==
    IF filter.order # getFilterOrder(filter.coefficients)
    THEN reset(filter)
    ELSE filter

\* The recursion of juce::dsp::IIR::Filter::processInternal for one sample:
\* the output and the new delay line are functions of the coefficients, the
\* delay line and the input, written as the tuple of the three.
Enc(c, st, x) == <<Len(c)>> \o c \o <<Len(st)>> \o st \o x

\* Coefficients whose numerator equals their denominator: the pass-through
\* set (1, 0, 1, 0) of a new Filter and a peak design of gain 0 dB
\* (makePeakFilter with gainFactor 1).
Unity(c) ==
    \/ c = DefaultCoefficients
    \/ Len(c) = 5 /\ c[1] = 2 /\ c[5] = 0

\* Unity coefficients on a zero delay line give y = x and leave the delay
\* line zero.
IIROut(c, st, x) ==
    IF Unity(c) /\ st = <<>> THEN x ELSE <<0>> \o Enc(c, st, x)

IIRState(c, st, x) ==
    IF Unity(c) /\ st = <<>> THEN <<>> ELSE Enc(c, st, x)

\* juce::dsp::IIR::Filter::process on the samples of block from i on;
\* r.filter is the Filter, r.block the block being filtered in place
RECURSIVE filterLoop(_, _)
filterLoop(r, i) ==
    IF i > Len(r.block)
    THEN r
    ELSE LET f == r.filter
             x == r.block[i]
         IN  filterLoop(
               [filter |-> [f EXCEPT
                              !.state = IIRState(f.coefficients, f.state, x)],
                block |-> [r.block EXCEPT
                              ![i] = IIROut(f.coefficients, f.state, x)]],
               i + 1)

\* juce::dsp::IIR::Filter::process (ProcessContextReplacing)
filterProcess(filter, block) ==
    filterLoop([filter |-> check(filter), block |-> block], 1)

\* juce::dsp::ProcessorChain::process of a CutFilter, from stage Index on:
\* a bypassed stage is skipped, its Filter untouched
RECURSIVE cutLoop(_, _, _)
cutLoop(Index, chain, block) ==
    IF Index >= NUM_FILTER_SLOPES
    THEN [chain |-> chain, block |-> block]
    ELSE IF chain.bypassed[Index]
         THEN cutLoop(Index + 1, chain, block)
         ELSE LET r == filterProcess(chain.filters[Index], block)
              IN  cutLoop(Index + 1,
                          [chain EXCEPT !.filters[Index] = r.filter],
                          r.block)

\* juce::dsp::ProcessorChain::process of a CutFilter
cutProcess(chain, block) == cutLoop(0, chain, block)

\* No call made on the cascade yet.
NoCutCall ==
    [op |-> "none", applies |-> 0, processed |-> 0, index |-> 0,
     slope |-> 0, isOff |-> FALSE, pre |-> NewCutFilter,
     cutCoefficients |-> <<>>]

\* juce::dsp::IIR::Coefficients::makePeakFilter (sampleRate, frequency, Q,
\* gainFactor), gainFactor = Decibels::decibelsToGain (gainInDB): one to one
\* on gains above -100 dB.  Q is in steps of 0.05 and the gain of 0.5 dB.
makePeakFilter(freq, q, gainInDB, sampleRate) ==
    <<2, sampleRate, freq, q, gainInDB>>

(***************************************************************************)
(* The parameters (PluginProcessor.cpp 395-524) and ChainSettings.  A      *)
(* frequency is in Hz, a gain in steps of 0.5 dB, a quality in steps of    *)
(* 0.05, a slope is the choice index 0..7.                                 *)
(***************************************************************************)
PeakFreq == <<"Peak1 Freq", "Peak2 Freq", "Peak3 Freq", "Peak4 Freq", "Peak5 Freq">>

PeakGain == <<"Peak1 Gain", "Peak2 Gain", "Peak3 Gain", "Peak4 Gain", "Peak5 Gain">>

PeakQuality ==
    <<"Peak1 Quality", "Peak2 Quality", "Peak3 Quality", "Peak4 Quality",
      "Peak5 Quality">>

Peaks == 1 .. 5

\* The parameters in the order getChainSettings loads them
ParamOrder ==
    <<"LowCut Freq", "HighCut Freq",
      "Peak1 Freq", "Peak1 Gain", "Peak1 Quality",
      "Peak2 Freq", "Peak2 Gain", "Peak2 Quality",
      "Peak3 Freq", "Peak3 Gain", "Peak3 Quality",
      "Peak4 Freq", "Peak4 Gain", "Peak4 Quality",
      "Peak5 Freq", "Peak5 Gain", "Peak5 Quality",
      "LowCut Slope", "HighCut Slope">>

ParamNames == {ParamOrder[i] : i \in 1 .. Len(ParamOrder)}

PeakDefaultFreq == <<120, 250, 500, 1000, 3200>>

UnitQuality == 20

\* createParameterLayout: every parameter at its default value
createParameterLayout ==
    [p \in ParamNames |->
       CASE p = "LowCut Freq" -> 5
         [] p = "HighCut Freq" -> 22000
         [] \E k \in Peaks : p = PeakFreq[k] ->
              PeakDefaultFreq[CHOOSE k \in Peaks : p = PeakFreq[k]]
         [] \E k \in Peaks : p = PeakQuality[k] -> UnitQuality
         [] OTHER -> 0]

\* The values the host writes to a parameter, inside the parameter's range:
\* both ends and the middle of freq_range for the two cuts, every slope of
\* the low cut, the gentlest and the steepest of the high cut, a boost for
\* Peak1.
HostValues(p) ==
    CASE p \in {"LowCut Freq", "HighCut Freq"} -> {5, 1000, 22000}
      [] p = "LowCut Slope" -> Stages
      [] p = "HighCut Slope" -> {0, NUM_FILTER_SLOPES - 1}
      [] p = "Peak1 Gain" -> {0, 12}
      [] OTHER -> {createParameterLayout[p]}

\* struct ChainSettings, default-initialised
ChainSettings ==
    [p \in ParamNames |->
       IF \E k \in Peaks : p = PeakQuality[k] THEN UnitQuality ELSE 0]

\* A getChainSettings that loads "LowCut Slope" for both slopes.
loadSettingsLowSlopeTwice(settings, values, from, to) ==
    [p \in ParamNames |->
       IF \E i \in from .. to : ParamOrder[i] = p
       THEN IF p = "HighCut Slope" THEN values["LowCut Slope"] ELSE values[p]
       ELSE settings[p]]

\* The loads of getChainSettings numbered from..to of ParamOrder
loadSettings(settings, values, from, to) ==
    [p \in ParamNames |->
       IF \E i \in from .. to : ParamOrder[i] = p
       THEN values[p]
       ELSE settings[p]]

low_cut_off_range == [start |-> 0, end |-> 6]

high_cut_off_range == [start |-> 21500, end |-> 22001]

\* juce::Range::contains
contains(range, position) == range.start <= position /\ position < range.end

(***************************************************************************)
(* MonoChain: LowCut, Peak1..Peak5, HighCut.                               *)
(***************************************************************************)
ChainPositions == 0 .. 6

NewMonoChain ==
    [LowCut |-> NewCutFilter,
     Peak |-> [k \in Peaks |-> NewFilter],
     HighCut |-> NewCutFilter,
     bypassed |-> [i \in ChainPositions |-> FALSE]]

\* juce::dsp::ProcessorChain::prepare: every Filter of the chain is reset
prepareChain(chain) ==
    [chain EXCEPT
       !.LowCut.filters = [i \in Stages |-> reset(chain.LowCut.filters[i])],
       !.Peak = [k \in Peaks |-> reset(chain.Peak[k])],
       !.HighCut.filters = [i \in Stages |-> reset(chain.HighCut.filters[i])]]

\* The Peak filters of juce::dsp::ProcessorChain::process, from Peak k on
RECURSIVE peakLoop(_, _, _)
peakLoop(k, chain, block) ==
    IF k > 5
    THEN [chain |-> chain, block |-> block]
    ELSE IF chain.bypassed[k]
         THEN peakLoop(k + 1, chain, block)
         ELSE LET r == filterProcess(chain.Peak[k], block)
              IN  peakLoop(k + 1, [chain EXCEPT !.Peak[k] = r.filter], r.block)

\* A ProcessorChain::process that runs the Peak filters before the low cut.
chainProcessPeaksFirst(chain, block) ==
    LET mid == peakLoop(1, chain, block)
        low == IF chain.bypassed[0]
               THEN [chain |-> chain.LowCut, block |-> mid.block]
               ELSE cutProcess(chain.LowCut, mid.block)
        high == IF chain.bypassed[6]
                THEN [chain |-> chain.HighCut, block |-> low.block]
                ELSE cutProcess(chain.HighCut, low.block)
    IN  [chain |-> [mid.chain EXCEPT !.LowCut = low.chain,
                                     !.HighCut = high.chain],
         block |-> high.block]

\* juce::dsp::ProcessorChain::process of a MonoChain on one channel
chainProcess(chain, block) ==
    LET low == IF chain.bypassed[0]
               THEN [chain |-> chain.LowCut, block |-> block]
               ELSE cutProcess(chain.LowCut, block)
        mid == peakLoop(1, [chain EXCEPT !.LowCut = low.chain], low.block)
        high == IF chain.bypassed[6]
                THEN [chain |-> mid.chain.HighCut, block |-> mid.block]
                ELSE cutProcess(mid.chain.HighCut, mid.block)
    IN  [chain |-> [mid.chain EXCEPT !.HighCut = high.chain],
         block |-> high.block]

\* An updatePeakFilter whose right chain gets Peak2's coefficients at Peak1.
updatePeakFilterCrossed(chainSettings, sampleRate, chains) ==
    LET peakCoefficients(k) ==
            makePeakFilter(chainSettings[PeakFreq[k]],
                           chainSettings[PeakQuality[k]],
                           chainSettings[PeakGain[k]],
                           sampleRate)
    IN  [left |-> [chains.left EXCEPT
                     !.Peak = [k \in Peaks |->
                        updateCoefficients(@[k], peakCoefficients(k))]],
         right |-> [chains.right EXCEPT
                     !.Peak = [k \in Peaks |->
                        updateCoefficients(@[k],
                          peakCoefficients(IF k = 1 THEN 2 ELSE k))]]]

\* updatePeakFilter: chains is [left |-> leftChain, right |-> rightChain]
updatePeakFilter(chainSettings, sampleRate, chains) ==
    LET peakCoefficients(k) ==
            makePeakFilter(chainSettings[PeakFreq[k]],
                           chainSettings[PeakQuality[k]],
                           chainSettings[PeakGain[k]],
                           sampleRate)
    IN  [left |-> [chains.left EXCEPT
                     !.Peak = [k \in Peaks |->
                        updateCoefficients(@[k], peakCoefficients(k))]],
         right |-> [chains.right EXCEPT
                     !.Peak = [k \in Peaks |->
                        updateCoefficients(@[k], peakCoefficients(k))]]]

\* An updateFilters that designs from the parameters as they are when it
\* runs, not from the snapshot it was given.
updateFiltersOnLive(chain, chainSettings, sampleRate) ==
    LET lowSlope == apvts["LowCut Slope"]
        highSlope == apvts["HighCut Slope"]
        low == applyCoefficientsToCutFilter(
                  chain.LowCut,
                  makeCutFilter(apvts["LowCut Freq"], sampleRate,
                                lowSlope, HighPass),
                  lowSlope,
                  contains(low_cut_off_range, apvts["LowCut Freq"]))
        high == applyCoefficientsToCutFilter(
                   chain.HighCut,
                   makeCutFilter(apvts["HighCut Freq"], sampleRate,
                                 highSlope, LowPass),
                   highSlope,
                   contains(high_cut_off_range, apvts["HighCut Freq"]))
        peaks == updatePeakFilter(apvts, sampleRate,
                                  [left |-> chain, right |-> chain]).left
    IN  [peaks EXCEPT !.LowCut = low, !.HighCut = high]

\* updateFilters as it leaves one chain, for the snapshot chainSettings
updateFiltersOn(chain, chainSettings, sampleRate) ==
    LET lowSlope == chainSettings["LowCut Slope"]
        highSlope == chainSettings["HighCut Slope"]
        low == applyCoefficientsToCutFilter(
                  chain.LowCut,
                  makeCutFilter(chainSettings["LowCut Freq"], sampleRate,
                                lowSlope, HighPass),
                  lowSlope,
                  contains(low_cut_off_range, chainSettings["LowCut Freq"]))
        high == applyCoefficientsToCutFilter(
                   chain.HighCut,
                   makeCutFilter(chainSettings["HighCut Freq"], sampleRate,
                                 highSlope, LowPass),
                   highSlope,
                   contains(high_cut_off_range, chainSettings["HighCut Freq"]))
        peaks == updatePeakFilter(chainSettings, sampleRate,
                                  [left |-> chain, right |-> chain]).left
    IN  [peaks EXCEPT !.LowCut = low, !.HighCut = high]

\* updateFilters: bool isOff = low_cut_off_range.contains(lowCutFreq)
lowCutIsOff(chainSettings) ==
    contains(low_cut_off_range, chainSettings["LowCut Freq"])

\* An updateFilters that does not recompute isOff for the high cut.
highCutIsOffStale(chainSettings) == lowCutIsOff(chainSettings)

\* updateFilters: isOff = high_cut_off_range.contains(highCutFreq)
highCutIsOff(chainSettings) ==
    contains(high_cut_off_range, chainSettings["HighCut Freq"])

(***************************************************************************)
(* The thread in prepareToPlay or processBlock.  pc is the statement it is *)
(* at; the statements of updateFilters are                                 *)
(*   load1, load2, load3  getChainSettings: the cut frequencies, the Peak  *)
(*                        parameters, the slopes                           *)
(*   lowL, lowR           updateCutFilter<LowCut>: the design and the left *)
(*                        cascade, then the right cascade                  *)
(*   peak                 updatePeakFilter                                 *)
(*   highL, highR         updateCutFilter<HighCut>                         *)
(***************************************************************************)
UpdateSteps ==
    {"load1", "load2", "load3", "lowL", "lowR", "peak", "highL", "highR"}

ChainWrites == {"lowL", "lowR", "peak", "highL", "highR"}

\* A processBlock that starts leftChain.process before the right high cut
\* cascade is updated.
nextStatementEarly(pc, caller) ==
    CASE pc = "load1" -> "load2"
      [] pc = "load2" -> "load3"
      [] pc = "load3" -> "lowL"
      [] pc = "lowL" -> "lowR"
      [] pc = "lowR" -> "peak"
      [] pc = "peak" -> "highL"
      [] pc = "highL" -> IF caller = "processBlock" THEN "procL" ELSE "highR"
      [] pc = "highR" -> IF caller = "prepareToPlay" THEN "fifoL" ELSE "procL"
      [] pc = "fifoL" -> "fifoLEnd"
      [] pc = "fifoLEnd" -> "fifoR"
      [] pc = "fifoR" -> "fifoREnd"
      [] pc = "procL" -> "procR"
      [] pc = "procR" -> "collL"
      [] pc = "collL" -> "collR"
      [] OTHER -> "idle"

\* The statement after pc in updateFilters, prepareToPlay and processBlock
nextStatement(pc, caller) ==
    CASE pc = "load1" -> "load2"
      [] pc = "load2" -> "load3"
      [] pc = "load3" -> "lowL"
      [] pc = "lowL" -> "lowR"
      [] pc = "lowR" -> "peak"
      [] pc = "peak" -> "highL"
      [] pc = "highL" -> "highR"
      [] pc = "highR" -> IF caller = "prepareToPlay" THEN "fifoL" ELSE "procL"
      [] pc = "fifoL" -> "fifoLEnd"
      [] pc = "fifoLEnd" -> "fifoR"
      [] pc = "fifoR" -> "fifoREnd"
      [] pc = "procL" -> "procR"
      [] pc = "procR" -> "collL"
      [] pc = "collL" -> "collR"
      [] OTHER -> "idle"

\* What the statement at pc of updateFilters does, in the order it does it:
\* the snapshot (getChainSettings returns), the design of the coefficients
\* of a chain position, the write of a position of the left or right chain.
Event(op, position) == [op |-> op, position |-> position]

\* An updateCutFilter that writes rightCut before leftCut.
updateEventsRightFirst(pc) ==
    CASE pc = "load3" -> <<Event("snapshot", 0)>>
      [] pc = "lowL" -> <<Event("design", 0), Event("right", 0)>>
      [] pc = "lowR" -> <<Event("left", 0)>>
      [] pc = "peak" ->
           [k \in Peaks |-> Event("design", k)]
           \o [i \in 1 .. 10 |->
                 Event(IF i % 2 = 1 THEN "left" ELSE "right", (i + 1) \div 2)]
      [] pc = "highL" -> <<Event("design", 6), Event("right", 6)>>
      [] pc = "highR" -> <<Event("left", 6)>>
      [] OTHER -> <<>>

updateEvents(pc) ==
    CASE pc = "load3" -> <<Event("snapshot", 0)>>
      [] pc = "lowL" -> <<Event("design", 0), Event("left", 0)>>
      [] pc = "lowR" -> <<Event("right", 0)>>
      [] pc = "peak" ->
           [k \in Peaks |-> Event("design", k)]
           \o [i \in 1 .. 10 |->
                 Event(IF i % 2 = 1 THEN "left" ELSE "right", (i + 1) \div 2)]
      [] pc = "highL" -> <<Event("design", 6), Event("left", 6)>>
      [] pc = "highR" -> <<Event("right", 6)>>
      [] OTHER -> <<>>

\* No call made by the host yet: the processor as constructed.  Beside the
\* locals of the running call: done and trace, the chain writes and the
\* events of the running or last updateFilters; updates, the updateFilters
\* calls that have returned.
NoAudio ==
    [pc |-> "constructed", caller |-> "none", sampleRate |-> 0,
     samplesPerBlock |-> 0, chainSettings |-> ChainSettings,
     cutCoefficients |-> <<>>, done |-> {}, updates |-> 0, trace |-> <<>>]

\* The values a set of parameters holds, as the set of values each has had.
Seen(parameters) == [p \in DOMAIN parameters |-> {parameters[p]}]

\* BusesProperties().withInput ("Input", stereo).withOutput ("Output", stereo)
BusesProperties == [in |-> "stereo", out |-> "stereo"]

\* seen: the values each parameter has had since the running updateFilters
\* was entered; between two runs, the value it has.  layout: the bus layout
\* the host has set.
NoHost ==
    [writes |-> 0, blocks |-> 0, prepares |-> 0, fed |-> 0,
     seen |-> Seen(createParameterLayout), layout |-> BusesProperties]

(***************************************************************************)
(* One thread using a Fifo: any sequence of push and pull calls.  The item *)
(* offered by the k-th push call is the tag k.                             *)
(***************************************************************************)
NoCall == [op |-> "none", ok |-> FALSE, pre |-> NewFifo(DefaultT), preOut |-> DefaultT]

IdleProducer == [pc |-> "idle", blockSize1 |-> 0, startIndex1 |-> 0, t |-> DefaultT]

IdleConsumer == [pc |-> "idle", blockSize1 |-> 0, startIndex1 |-> 0, seen |-> DefaultT]

NoLog == [pushCalls |-> 0, pushed |-> <<>>, pulled |-> <<>>]

\* The objects of each part of the model as constructed.
InitFifoVars ==
    /\ fifo = NewFifo(DefaultT)
    /\ out = DefaultT
    /\ prod = IdleProducer
    /\ cons = IdleConsumer
    /\ log = NoLog
    /\ hist = NoHist
    /\ last = NoCall

InitCollectorVars ==
    /\ scsf = NewCollector(Left)
    /\ chist = NoCollectorHist

InitCutVars ==
    /\ cutFilter = NewCutFilter
    /\ cutCall = NoCutCall

InitProcVars ==
    /\ apvts = createParameterLayout
    /\ host = NoHost
    /\ audio = NoAudio
    /\ leftChain = NewMonoChain
    /\ rightChain = NewMonoChain
    /\ buffer = EmptyBuffer
    /\ leftChannelFifo = NewCollector(Left)
    /\ rightChannelFifo = NewCollector(Right)

InitFifo == InitFifoVars /\ InitCollectorVars /\ InitCutVars /\ InitProcVars

FifoPush ==
    /\ hist.pushCalls < MaxPushCalls
    /\ LET t == hist.pushCalls + 1
           r == push(fifo, t)
       IN  /\ fifo' = r.fifo
           /\ hist' = [hist EXCEPT
                         !.pushCalls = @ + 1,
                         !.pushed = IF r.ok THEN Append(@, t) ELSE @,
                         !.pushFails = IF r.ok THEN @ ELSE @ + 1,
                         !.mixed = @ \/ hist.pullCalls > 0]
           /\ last' = [op |-> "push", ok |-> r.ok, pre |-> fifo, preOut |-> out]
    /\ UNCHANGED <<out, prod, cons, log, scsf, chist, cutFilter, cutCall, procVars>>

FifoPull ==
    /\ hist.pullCalls < MaxPullCalls
    /\ LET r == pull(fifo, out)
       IN  /\ fifo' = r.fifo
           /\ out' = r.t
           /\ hist' = [hist EXCEPT
                         !.pullCalls = @ + 1,
                         !.pulled = IF r.ok THEN Append(@, r.t) ELSE @]
           /\ last' = [op |-> "pull", ok |-> r.ok, pre |-> fifo, preOut |-> out]
    /\ UNCHANGED <<prod, cons, log, scsf, chist, cutFilter, cutCall, procVars>>

NextFifo == FifoPush \/ FifoPull

SpecFifo == InitFifo /\ [][NextFifo]_vars

IsPrefix(s, t) == Len(s) <= Len(t) /\ s = SubSeq(t, 1, Len(s))

\* The tags 1 .. n in order.
Tags(n) == [i \in 1 .. n |-> i]

FifoFull(f) == getFreeSpace(f.validStart, f.validEnd) = 0

\* C3 (as stated): on a fresh Fifo, N <= Capacity consecutive push calls with
\* no pull in between all return true, and the N following pull calls all
\* return true and yield the pushed items unchanged and in push order.
C3_PushNPullN ==
    (/\ ~hist.mixed
     /\ hist.pushCalls <= Capacity
     /\ hist.pullCalls <= hist.pushCalls)
    => /\ hist.pushFails = 0
       /\ hist.pushed = Tags(hist.pushCalls)
       /\ hist.pulled = Tags(hist.pullCalls)

\* C5: a push on a full Fifo returns false and leaves every slot, both
\* cursors and getNumAvailableForReading as they were; the items buffered
\* before it are pulled intact and in their original order.
C5_PushOnFull ==
    /\ (last.op = "push" /\ FifoFull(last.pre))
       => /\ ~last.ok
          /\ fifo = last.pre
          /\ getNumAvailableForReading(fifo) = getNumAvailableForReading(last.pre)
    /\ IsPrefix(hist.pulled, hist.pushed)
    /\ \A i \in 1 .. Len(hist.pulled) : hist.pulled[i] = hist.pushed[i]

\* A push failed on the full Fifo and the Capacity - 1 items buffered before
\* it have all been pulled since.
C5_Witness ==
    /\ hist.pushFails > 0
    /\ ~hist.mixed
    /\ Len(hist.pulled) = Capacity - 1
    /\ last.op = "pull" /\ last.ok

\* C6: a pull on an empty Fifo returns false, leaves its output argument as
\* it was, and leaves both cursors and every slot unchanged.
C6_PullOnEmpty ==
    (last.op = "pull" /\ getNumAvailableForReading(last.pre) = 0)
    => /\ ~last.ok
       /\ out = last.preOut
       /\ fifo = last.pre

\* A pull failed on a Fifo emptied by earlier pulls: the output argument still
\* holds the item of the last successful pull.
C6_Witness ==
    /\ last.op = "pull"
    /\ ~last.ok
    /\ getNumAvailableForReading(last.pre) = 0
    /\ Len(hist.pulled) > 0
    /\ out = hist.pulled[Len(hist.pulled)]

(***************************************************************************)
(* One producer thread in Fifo::push and one consumer thread in            *)
(* Fifo::pull, interleaved at cursor read, slot copy (begin and end) and   *)
(* cursor advance.  A slot that is being written holds a partial value; a  *)
(* copy that overlaps a write of its slot yields a torn item.              *)
(***************************************************************************)
\* Items are tags >= 1; a half-written slot and a torn copy are negative.
Partial(t) == 0 - t - 1

Torn == 0 - 1

InitSPSC == InitFifoVars /\ InitCollectorVars /\ InitCutVars /\ InitProcVars

\* push: auto write = fifo.write(1)
ProducerPrepare ==
    /\ prod.pc = "idle"
    /\ log.pushCalls < MaxPushCalls
    /\ LET write == prepareToWrite(1, fifo.validStart, fifo.validEnd)
       IN  prod' = [pc |-> IF write.blockSize1 > 0 THEN "copy" ELSE "finish",
                    blockSize1 |-> write.blockSize1,
                    startIndex1 |-> write.startIndex1,
                    t |-> log.pushCalls + 1]
    /\ log' = [log EXCEPT !.pushCalls = @ + 1]
    /\ UNCHANGED <<fifo, out, hist, last, cons, scsf, chist, cutFilter, cutCall, procVars>>

\* push: buffers[write.startIndex1] = t, the copy begins
ProducerCopyBegin ==
    /\ prod.pc = "copy"
    /\ fifo' = [fifo EXCEPT !.buffers[prod.startIndex1] = Partial(prod.t)]
    /\ prod' = [prod EXCEPT !.pc = "copying"]
    /\ UNCHANGED <<out, hist, last, cons, log, scsf, chist, cutFilter, cutCall, procVars>>

\* push: buffers[write.startIndex1] = t, the copy ends
ProducerCopyEnd ==
    /\ prod.pc = "copying"
    /\ fifo' = [fifo EXCEPT !.buffers[prod.startIndex1] = prod.t]
    /\ prod' = [prod EXCEPT !.pc = "finish"]
    /\ UNCHANGED <<out, hist, last, cons, log, scsf, chist, cutFilter, cutCall, procVars>>

\* push: return, the ScopedWrite advances validEnd
ProducerFinish ==
    /\ prod.pc = "finish"
    /\ fifo' = [fifo EXCEPT !.validEnd = finishedWrite(@, prod.blockSize1)]
    /\ log' = [log EXCEPT
                 !.pushed = IF prod.blockSize1 > 0 THEN Append(@, prod.t) ELSE @]
    /\ prod' = IdleProducer
    /\ UNCHANGED <<out, hist, last, cons, scsf, chist, cutFilter, cutCall, procVars>>

\* pull: auto read = fifo.read(1)
ConsumerPrepare ==
    /\ cons.pc = "idle"
    /\ LET read == prepareToRead(1, fifo.validStart, fifo.validEnd)
       IN  cons' = [pc |-> IF read.blockSize1 > 0 THEN "copy" ELSE "finish",
                    blockSize1 |-> read.blockSize1,
                    startIndex1 |-> read.startIndex1,
                    seen |-> DefaultT]
    /\ UNCHANGED <<fifo, out, hist, last, prod, log, scsf, chist, cutFilter, cutCall, procVars>>

\* pull: t = buffers[read.startIndex1], the copy begins
ConsumerCopyBegin ==
    /\ cons.pc = "copy"
    /\ cons' = [cons EXCEPT !.pc = "copying",
                            !.seen = fifo.buffers[cons.startIndex1]]
    /\ UNCHANGED <<fifo, out, hist, last, prod, log, scsf, chist, cutFilter, cutCall, procVars>>

\* pull: t = buffers[read.startIndex1], the copy ends
ConsumerCopyEnd ==
    /\ cons.pc = "copying"
    /\ LET now == fifo.buffers[cons.startIndex1]
       IN  out' = IF now = cons.seen /\ now >= 0 THEN now ELSE Torn
    /\ cons' = [cons EXCEPT !.pc = "finish"]
    /\ UNCHANGED <<fifo, hist, last, prod, log, scsf, chist, cutFilter, cutCall, procVars>>

\* pull: return, the ScopedRead advances validStart
ConsumerFinish ==
    /\ cons.pc = "finish"
    /\ fifo' = [fifo EXCEPT !.validStart = finishedRead(@, cons.blockSize1)]
    /\ log' = [log EXCEPT
                 !.pulled = IF cons.blockSize1 > 0 THEN Append(@, out) ELSE @]
    /\ cons' = IdleConsumer
    /\ UNCHANGED <<out, hist, last, prod, scsf, chist, cutFilter, cutCall, procVars>>

NextSPSC ==
    \/ ProducerPrepare
    \/ ProducerCopyBegin
    \/ ProducerCopyEnd
    \/ ProducerFinish
    \/ ConsumerPrepare
    \/ ConsumerCopyBegin
    \/ ConsumerCopyEnd
    \/ ConsumerFinish

SpecSPSC == InitSPSC /\ [][NextSPSC]_vars

\* C4: with one producer and one consumer, every successful pull returns an
\* item that a completed push stored whole (never a slot that is being
\* written), and the items pulled are the successfully pushed items in push
\* order, none duplicated and none skipped.
C4_SPSC ==
    /\ out # Torn
    /\ \A i \in 1 .. Len(log.pulled) : log.pulled[i] \in 1 .. log.pushCalls
    /\ IsPrefix(log.pulled, log.pushed)
    /\ (/\ cons.pc \in {"copy", "copying"}
        /\ prod.pc \in {"copy", "copying", "finish"}
        /\ prod.blockSize1 > 0)
       => cons.startIndex1 # prod.startIndex1

\* Both threads are in the middle of their slot copies after the cursors
\* have wrapped around the ring.
C4_Witness ==
    /\ prod.pc = "copying"
    /\ cons.pc = "copying"
    /\ Len(log.pulled) > Capacity
    /\ Len(log.pushed) > Len(log.pulled)

(***************************************************************************)
(* One collector: prepare, update with the host's blocks, and the          *)
(* consumer's getAudioBuffer.                                              *)
(***************************************************************************)
InitCollector ==
    /\ fifo = NewFifo(DefaultT)
    /\ out = EmptyBuffer
    /\ hist = NoHist
    /\ last = NoCall
    /\ prod = IdleProducer
    /\ cons = IdleConsumer
    /\ log = NoLog
    /\ scsf \in {NewCollector(Left), NewCollector(Right)}
    /\ chist = NoCollectorHist
    /\ InitCutVars
    /\ InitProcVars

CollectorPrepare ==
    /\ chist.prepares < MaxPrepares
    /\ \E bufferSize \in 1 .. MaxBlockSize :
          /\ scsf' = prepareCollector(scsf, bufferSize)
          /\ chist' = [chist EXCEPT !.prepares = @ + 1, !.samples = 0,
                                    !.input = <<>>, !.attempts = <<>>,
                                    !.pulled = <<>>, !.op = "prepare",
                                    !.bufferSize = bufferSize]
    /\ UNCHANGED <<fifo, out, hist, last, prod, cons, log, cutFilter, cutCall, procVars>>

CollectorUpdate ==
    /\ scsf.prepared
    /\ \E n \in 0 .. MaxUpdateLen :
          /\ chist.fed + n <= MaxSamples
          /\ LET hostBuffer == StereoBlock(chist.fed, n)
                 r == updateCollector(scsf, hostBuffer)
             IN  /\ scsf' = r.c
                 /\ chist' = [chist EXCEPT
                      !.fed = @ + n,
                      !.samples = @ + n,
                      !.input = @ \o hostBuffer.data[scsf.channelToUse + 1],
                      !.attempts = @ \o r.attempts,
                      !.op = "update"]
    /\ UNCHANGED <<fifo, out, hist, last, prod, cons, log, cutFilter, cutCall, procVars>>

\* SingleChannelSampleFifo::getAudioBuffer
CollectorGetAudioBuffer ==
    /\ LET r == pull(scsf.audioBufferFifo, out)
       IN  /\ scsf' = [scsf EXCEPT !.audioBufferFifo = r.fifo]
           /\ out' = r.t
           /\ chist' = [chist EXCEPT
                          !.pulled = IF r.ok THEN Append(@, r.t) ELSE @,
                          !.op = "getAudioBuffer"]
    /\ UNCHANGED <<fifo, hist, last, prod, cons, log, cutFilter, cutCall, procVars>>

NextCollector ==
    \/ CollectorPrepare
    \/ CollectorUpdate
    \/ CollectorGetAudioBuffer

SpecCollector == InitCollector /\ [][NextCollector]_vars

\* C10 (as stated): after prepare(n), n >= 1, the full buffer is pushed and
\* the cursor reset within the update call that stores the n-th sample: at
\* the end of every update the cursor is below n, and after k*n samples
\* exactly k pushes have been attempted.
C10_PushWhenFull ==
    scsf.prepared
    => /\ scsf.fifoIndex < scsf.size
       /\ (chist.samples % scsf.size = 0)
          => Len(chist.attempts) = chist.samples \div scsf.size

\* C10 (amended): the full buffer is pushed and the cursor reset when the
\* next sample arrives: at the end of every update the cursor is at most n,
\* at least 1 once a sample has arrived, and after s >= 1 samples exactly
\* (s - 1) div n pushes have been attempted (k - 1 after k*n samples), the
\* cursor holding the s - n * ((s - 1) div n) samples not yet handed over.
C10_PushOnNextSample ==
    scsf.prepared
    => /\ scsf.fifoIndex <= scsf.size
       /\ (chist.samples = 0)
          => (scsf.fifoIndex = 0 /\ chist.attempts = <<>>)
       /\ (chist.samples >= 1)
          => /\ scsf.fifoIndex >= 1
             /\ Len(chist.attempts) = (chist.samples - 1) \div scsf.size
             /\ scsf.fifoIndex
                  = chist.samples - scsf.size * Len(chist.attempts)

\* Two blocks' worth of samples have arrived: the second block is complete
\* in the accumulation buffer and only the first has been pushed.
C10_Witness ==
    /\ scsf.prepared
    /\ scsf.size = 2
    /\ chist.samples = 2 * scsf.size
    /\ scsf.fifoIndex = scsf.size
    /\ Len(chist.attempts) = 1

\* SingleChannelSampleFifo::getNumCompleteBuffersAvailable
getNumCompleteBuffersAvailable(c) ==
    getNumAvailableForReading(c.audioBufferFifo)

\* C12: prepare(blockSize) resets all internal state of the collector: when
\* it has returned the write cursor is 0, prepared is true, getSize() is
\* blockSize and getNumCompleteBuffersAvailable() is 0, also when completed
\* blocks were queued and not pulled before the call.
C12_PrepareResetsAll ==
    chist.op = "prepare"
    => /\ scsf.fifoIndex = 0
       /\ scsf.prepared
       /\ scsf.size = chist.bufferSize
       /\ getNumCompleteBuffersAvailable(scsf) = 0

\* C26: after prepare(bufferSize) each of the 30 slots of the collector's
\* Fifo holds one channel of bufferSize samples, and as long as the
\* collector is prepared the slot the next push writes has the size of the
\* block that will be pushed, so that the copy does not resize it.
C26_SlotsSized ==
    LET f == scsf.audioBufferFifo
    IN  /\ chist.op = "prepare"
           => \A i \in 0 .. Capacity - 1 :
                 /\ f.buffers[i].numChannels = 1
                 /\ f.buffers[i].numSamples = chist.bufferSize
        /\ scsf.prepared
           => /\ f.buffers[f.validEnd].numChannels
                   = scsf.bufferToFill.numChannels
              /\ f.buffers[f.validEnd].numSamples
                   = scsf.bufferToFill.numSamples

\* The samples of the blocks of a sequence of push attempts, in order.
RECURSIVE Concat(_)
Concat(attempts) ==
    IF attempts = <<>>
    THEN <<>>
    ELSE Head(attempts).block.data[1] \o Concat(Tail(attempts))

\* C11: after prepare(n) and any updates in which no push was dropped, the
\* blocks pushed, in push order, followed by the first fifoIndex samples of
\* the accumulation buffer are the samples of the collector's channel in
\* arrival order (none skipped, duplicated or reordered), and every pushed
\* block holds exactly n samples.
C11_EverySampleOnce ==
    (/\ scsf.prepared
     /\ \A i \in 1 .. Len(chist.attempts) : chist.attempts[i].ok)
    => /\ Concat(chist.attempts)
            \o SubSeq(scsf.bufferToFill.data[1], 1, scsf.fifoIndex)
            = chist.input
       /\ \A i \in 1 .. Len(chist.attempts) :
             /\ chist.attempts[i].block.numSamples = scsf.size
             /\ Len(chist.attempts[i].block.data[1]) = scsf.size

\* Two blocks of two samples have been pushed and a fifth sample is in the
\* accumulation buffer.
C11_Witness ==
    /\ scsf.prepared
    /\ scsf.size = 2
    /\ Len(chist.attempts) = 2
    /\ \A i \in 1 .. Len(chist.attempts) : chist.attempts[i].ok
    /\ scsf.fifoIndex = 1
    /\ Len(chist.input) = 5

(***************************************************************************)
(* One cut-filter cascade under applyCoefficientsToCutFilter, called as    *)
(* updateCutFilter calls it: with the sections makeCutFilter designed for  *)
(* the same slope.                                                         *)
(***************************************************************************)
(* One collector whose consumer falls behind: prepared once, it is fed     *)
(* the host's blocks, of one sample or of many, while getAudioBuffer is    *)
(* seldom called.                                                          *)
(***************************************************************************)
BurstLens == {1, 16}

InitFull == InitCollector

FullPrepare == ~scsf.prepared /\ CollectorPrepare

FullGetAudioBuffer ==
    /\ Len(chist.pulled) < MaxPulls
    /\ CollectorGetAudioBuffer

CollectorBurst ==
    /\ scsf.prepared
    /\ \E n \in BurstLens :
          /\ chist.fed + n <= MaxFill
          /\ LET hostBuffer == StereoBlock(chist.fed, n)
                 r == updateCollector(scsf, hostBuffer)
             IN  /\ scsf' = r.c
                 /\ chist' = [chist EXCEPT
                      !.fed = @ + n,
                      !.samples = @ + n,
                      !.input = @ \o hostBuffer.data[scsf.channelToUse + 1],
                      !.attempts = @ \o r.attempts,
                      !.op = "update"]
    /\ UNCHANGED <<fifo, out, hist, last, prod, cons, log, cutFilter, cutCall, procVars>>

NextFull ==
    \/ FullPrepare
    \/ CollectorBurst
    \/ FullGetAudioBuffer

SpecFull == InitFull /\ [][NextFull]_vars

\* The blocks queued in a Fifo, oldest first.
Queue(f) ==
    [i \in 1 .. getNumAvailableForReading(f) |->
        f.buffers[(f.validStart + i - 1) % Capacity]]

\* The blocks of the push attempts that succeeded, in order.
RECURSIVE Accepted(_)
Accepted(attempts) ==
    IF attempts = <<>>
    THEN <<>>
    ELSE (IF Head(attempts).ok THEN <<Head(attempts).block>> ELSE <<>>)
         \o Accepted(Tail(attempts))

\* C19: a push the collector makes while its Fifo is full fails and the
\* block offered is discarded: in every update, a push succeeds exactly
\* when a slot is free, the queue afterwards is the queue before followed
\* by the accepted blocks (the blocks already queued unchanged and in
\* order), the cursor is reset after every attempt, failed or not, no
\* block is offered twice, and every sample that follows is stored.
C19_FullFifoDrops ==
    [][chist'.samples > chist.samples
       => LET n == chist'.samples - chist.samples
              attempts == SubSeq(chist'.attempts, Len(chist.attempts) + 1,
                                 Len(chist'.attempts))
              queued == Len(Queue(scsf.audioBufferFifo))
          IN  /\ \A k \in 1 .. Len(attempts) :
                     attempts[k].ok
                       <=> queued + Len(Accepted(SubSeq(attempts, 1, k - 1)))
                             < Capacity - 1
              /\ Queue(scsf'.audioBufferFifo)
                    = Queue(scsf.audioBufferFifo) \o Accepted(attempts)
              /\ Len(attempts) = (scsf.fifoIndex + n - 1) \div scsf.size
              /\ scsf'.fifoIndex
                    = scsf.fifoIndex + n - scsf.size * Len(attempts)
              /\ Concat(attempts)
                    \o SubSeq(scsf'.bufferToFill.data[1], 1, scsf'.fifoIndex)
                    = SubSeq(scsf.bufferToFill.data[1], 1, scsf.fifoIndex)
                      \o SubSeq(chist'.input, Len(chist.input) + 1,
                                Len(chist'.input))]_vars

\* An update has had a block refused by the full Fifo and has stored the
\* sample that followed it.
C19_Witness ==
    /\ chist.op = "update"
    /\ chist.attempts # <<>>
    /\ ~chist.attempts[Len(chist.attempts)].ok
    /\ getNumCompleteBuffersAvailable(scsf) = Capacity - 1
    /\ scsf.fifoIndex = 1
    /\ scsf.bufferToFill.data[1][1] = chist.input[Len(chist.input)]

(***************************************************************************)
CutFreqs == {20, 1000}

SampleRates == {44100}

InitCut == InitFifoVars /\ InitCollectorVars /\ InitCutVars /\ InitProcVars

CutApply ==
    /\ cutCall.applies < MaxApplies
    /\ \E cutFreq \in CutFreqs, sampleRate \in SampleRates, slope \in Stages,
          method \in {HighPass, LowPass}, isOff \in BOOLEAN :
          LET cutCoefficients == makeCutFilter(cutFreq, sampleRate, slope, method)
          IN  /\ cutFilter' = applyCoefficientsToCutFilter(
                                 cutFilter, cutCoefficients, slope, isOff)
              /\ cutCall' = [op |-> "apply",
                             applies |-> cutCall.applies + 1,
                             processed |-> 0,
                             index |-> 0,
                             slope |-> slope,
                             isOff |-> isOff,
                             pre |-> cutFilter,
                             cutCoefficients |-> cutCoefficients]
    /\ UNCHANGED <<fifo, out, hist, last, prod, cons, log, scsf, chist, procVars>>

NextCut == CutApply

SpecCut == InitCut /\ [][NextCut]_vars

Active(chain) == {i \in Stages : ~chain.bypassed[i]}

AllStagesBypassed == Active(cutFilter) = {}

\* C1 (as stated): after applyCoefficientsToCutFilter with isOff = false and
\* slope index s, exactly 2*(s+1) of the 8 stages are active, they are the
\* lowest-indexed ones, and all others are bypassed.
C1_TwiceSlopePlusOneActive ==
    (cutCall.applies > 0 /\ ~cutCall.isOff)
    => Active(cutFilter) = {i \in Stages : i < 2 * (cutCall.slope + 1)}

\* C1 (amended): after applyCoefficientsToCutFilter with isOff = false and
\* slope index s, exactly s+1 of the 8 stages are active, they are the
\* lowest-indexed ones (0 .. s), and all others are bypassed.
C1_SlopePlusOneActive ==
    (cutCall.applies > 0 /\ ~cutCall.isOff)
    => /\ Cardinality(Active(cutFilter)) = cutCall.slope + 1
       /\ \A i \in Stages : cutFilter.bypassed[i] <=> i > cutCall.slope

\* A call with slope index 3 on a cascade that had more stages active.
C1_Witness ==
    /\ cutCall.applies > 0
    /\ ~cutCall.isOff
    /\ cutCall.slope = 3
    /\ Cardinality(Active(cutCall.pre)) = NUM_FILTER_SLOPES
    /\ Active(cutFilter) = 0 .. 3

\* C13 (as stated): makeCutFilter returns exactly 8 coefficient sets for
\* every slope index 0..7 and both filter kinds; the number of sets does not
\* depend on the slope.
C13_EightSets ==
    cutCall.applies > 0 => Len(cutCall.cutCoefficients) = NUM_FILTER_SLOPES

\* C13 (amended): makeCutFilter returns exactly slope + 1 coefficient sets,
\* the second-order sections of the design of order 2 * (slope + 1), for
\* every slope index 0..7 and both filter kinds, each set of the kind, the
\* frequency and the sample rate asked for.
C13_SlopePlusOneSets ==
    cutCall.applies > 0
    => /\ Len(cutCall.cutCoefficients) = cutCall.slope + 1
       /\ \A i \in 1 .. Len(cutCall.cutCoefficients) :
             /\ cutCall.cutCoefficients[i][1] \in {HighPass, LowPass}
             /\ cutCall.cutCoefficients[i][2] \in CutFreqs
             /\ cutCall.cutCoefficients[i][4] = 2 * (cutCall.slope + 1)
       /\ \A i, j \in 1 .. Len(cutCall.cutCoefficients) :
             i # j => cutCall.cutCoefficients[i] # cutCall.cutCoefficients[j]

\* A low-pass design for slope index 2: three sets.
C13_Witness ==
    /\ cutCall.applies > 0
    /\ cutCall.slope = 2
    /\ Len(cutCall.cutCoefficients) = 3
    /\ cutCall.cutCoefficients[1][1] = LowPass

\* C23: after applyCoefficientsToCutFilter with isOff = false and slope
\* index s, stages 0..s are active and stages s+1..7 bypassed, and the mask
\* is the one the call leaves on a new cascade and on one with every stage
\* bypassed: it depends on s alone, not on the flags before the call.
C23_MaskFromSlopeOnly ==
    (cutCall.applies > 0 /\ ~cutCall.isOff)
    => LET s == cutCall.slope
           allBypassed == [cutCall.pre EXCEPT
                             !.bypassed = [i \in Stages |-> TRUE]]
           Mask(chain) ==
               applyCoefficientsToCutFilter(
                   chain, cutCall.cutCoefficients, s, FALSE).bypassed
       IN  /\ Active(cutFilter) = 0 .. s
           /\ {i \in Stages : cutFilter.bypassed[i]}
                 = s + 1 .. NUM_FILTER_SLOPES - 1
           /\ cutFilter.bypassed = Mask(NewCutFilter)
           /\ cutFilter.bypassed = Mask(allBypassed)

\* A call with slope index 5 on a cascade left with two active stages by
\* the call before: stages 2..5 become active, 6 and 7 bypassed.
C23_Witness ==
    /\ cutCall.applies = 2
    /\ ~cutCall.isOff
    /\ cutCall.slope = 5
    /\ Active(cutCall.pre) = 0 .. 1
    /\ Active(cutFilter) = 0 .. 5

\* C24: every stage index that applyCoefficientsToCutFilter activates
\* through update<i> is smaller than the number of coefficient sets
\* makeCutFilter produced for the slope: the stage gets set i of the design,
\* never what lies past its end.
C24_NoReadPastDesign ==
    (cutCall.applies > 0 /\ ~cutCall.isOff)
    => \A i \in Active(cutFilter) :
          /\ i < Len(cutCall.cutCoefficients)
          /\ cutFilter.filters[i].coefficients = cutCall.cutCoefficients[i + 1]
          /\ cutFilter.filters[i].coefficients # NullCoefficients

\* The steepest slope: update<7> reads the last of the eight sets.
C24_Witness ==
    /\ cutCall.applies > 0
    /\ ~cutCall.isOff
    /\ cutCall.slope = NUM_FILTER_SLOPES - 1
    /\ Len(cutCall.cutCoefficients) = NUM_FILTER_SLOPES
    /\ cutFilter.filters[7].coefficients = cutCall.cutCoefficients[8]

\* C25: applyCoefficientsToCutFilter writes coefficients to the stages it
\* activates only: with isOff every Filter of the cascade is as before the
\* call, without it every Filter of a stage left bypassed is.
C25_OnlyActivatedWritten ==
    cutCall.applies > 0
    => /\ cutCall.isOff => cutFilter.filters = cutCall.pre.filters
       /\ \A i \in Stages :
             cutFilter.bypassed[i]
               => cutFilter.filters[i] = cutCall.pre.filters[i]

\* An isOff call with another design on a cascade that holds the sections
\* of a steeper one.
C25_Witness ==
    /\ cutCall.applies = 2
    /\ cutCall.isOff
    /\ cutCall.slope = 0
    /\ Active(cutCall.pre) = 0 .. 2
    /\ cutCall.cutCoefficients[1] # cutCall.pre.filters[0].coefficients
    /\ cutFilter.filters = cutCall.pre.filters
    /\ AllStagesBypassed

(***************************************************************************)
(* Filter stages under processing and coefficient replacement: a CutFilter *)
(* whose stages process blocks, get new coefficients through update<Index> *)
(* (as the cut filters do) or through updateCoefficients alone (as the     *)
(* peak filters do).                                                       *)
(***************************************************************************)
RawSamples == {<<1>>, <<2>>}

\* The sections of the steepest high-pass design at one of the frequencies.
StageDesigns ==
    {makeCutFilter(cutFreq, sampleRate, NUM_FILTER_SLOPES - 1, HighPass) :
       cutFreq \in CutFreqs, sampleRate \in SampleRates}

InitStage == InitCut

StageProcess ==
    /\ cutCall.processed < MaxProcessed
    /\ \E x \in RawSamples :
          LET r == cutProcess(cutFilter, <<x>>)
          IN  /\ cutFilter' = r.chain
              /\ cutCall' = [cutCall EXCEPT !.op = "process",
                                            !.processed = @ + 1,
                                            !.pre = cutFilter]
    /\ UNCHANGED <<fifo, out, hist, last, prod, cons, log, scsf, chist, procVars>>

StageUpdate ==
    /\ cutCall.applies < MaxApplies
    /\ \E Index \in 0 .. MaxIndex, coefficients \in StageDesigns :
          /\ cutFilter' = update(Index, cutFilter, coefficients)
          /\ cutCall' = [cutCall EXCEPT !.op = "update",
                                        !.applies = @ + 1,
                                        !.index = Index,
                                        !.pre = cutFilter,
                                        !.cutCoefficients = coefficients]
    /\ UNCHANGED <<fifo, out, hist, last, prod, cons, log, scsf, chist, procVars>>

StageUpdateCoefficients ==
    /\ cutCall.applies < MaxApplies
    /\ \E Index \in 0 .. MaxIndex, sampleRate \in SampleRates :
          LET replacements == makePeakFilter(1000, 20, 12, sampleRate)
          IN  /\ cutFilter' = [cutFilter EXCEPT !.filters[Index] =
                                  updateCoefficients(@, replacements)]
              /\ cutCall' = [cutCall EXCEPT !.op = "updateCoefficients",
                                            !.applies = @ + 1,
                                            !.index = Index,
                                            !.pre = cutFilter,
                                            !.cutCoefficients = <<replacements>>]
    /\ UNCHANGED <<fifo, out, hist, last, prod, cons, log, scsf, chist, procVars>>

\* applyCoefficientsToCutFilter with isOff: every stage bypassed
StageApplyOff ==
    /\ cutCall.applies < MaxApplies
    /\ cutFilter' = applyCoefficientsToCutFilter(cutFilter, <<>>, 0, TRUE)
    /\ cutCall' = [cutCall EXCEPT !.op = "apply",
                                  !.applies = @ + 1,
                                  !.isOff = TRUE,
                                  !.pre = cutFilter,
                                  !.cutCoefficients = <<>>]
    /\ UNCHANGED <<fifo, out, hist, last, prod, cons, log, scsf, chist, procVars>>

NextStage ==
    \/ StageProcess
    \/ StageUpdate
    \/ StageUpdateCoefficients
    \/ StageApplyOff

SpecStage == InitStage /\ [][NextStage]_vars

\* C7: replacing a Filter stage's coefficients (updateCoefficients, also
\* through update<Index>) changes only that stage's coefficient values and
\* bypass flag: the delay-line state of the stage (and everything of every
\* other stage) is after the swap what it was before, for any processing
\* history and any replacement.
C7_SwapKeepsState ==
    (cutCall.op \in {"update", "updateCoefficients"})
    => /\ \A i \in Stages :
            /\ cutFilter.filters[i].state = cutCall.pre.filters[i].state
            /\ cutFilter.filters[i].order = cutCall.pre.filters[i].order
            /\ i # cutCall.index
               => /\ cutFilter.filters[i] = cutCall.pre.filters[i]
                  /\ cutFilter.bypassed[i] = cutCall.pre.bypassed[i]
       /\ cutFilter.bypassed[cutCall.index]
            = (cutCall.op = "updateCoefficients"
               /\ cutCall.pre.bypassed[cutCall.index])

\* A stage that has processed samples (its delay line is not zero) has just
\* been given coefficients different from the ones it processed with.
C7_Witness ==
    /\ cutCall.op \in {"update", "updateCoefficients"}
    /\ cutCall.pre.filters[cutCall.index].state # <<>>
    /\ cutFilter.filters[cutCall.index].coefficients
         # cutCall.pre.filters[cutCall.index].coefficients
    /\ cutFilter.filters[cutCall.index].state # <<>>


(***************************************************************************)
(* The processor: the host writes parameters at any time, calls            *)
(* prepareToPlay and then processBlock, never both at once.  The chains    *)
(* are written by the thread in these two calls only.                      *)
(***************************************************************************)
BlockSizes == {1}

\* The sample rates the host runs the processor at.
HostSampleRates == {32000, 44100}

InitProc == InitFifoVars /\ InitCollectorVars /\ InitCutVars /\ InitProcVars

\* The host or the editor sets a parameter to another value of its range.
SetParameter ==
    /\ host.writes < MaxWrites
    /\ \E p \in ParamNames :
         \E v \in HostValues(p) :
            /\ v # apvts[p]
            /\ apvts' = [apvts EXCEPT ![p] = v]
            /\ host' = [host EXCEPT !.writes = @ + 1,
                                    !.seen[p] =
                                        IF audio.pc \in UpdateSteps
                                        THEN @ \cup {v} ELSE {v}]
    /\ UNCHANGED <<fifoVars, collectorVars, cutVars, audio, leftChain,
                   rightChain, buffer, leftChannelFifo, rightChannelFifo>>

\* prepareToPlay up to the call of updateFilters: both chains prepared.  The
\* ChainSettings read before that call is not used.
PrepareToPlay ==
    /\ audio.pc \in {"constructed", "idle"}
    /\ host.prepares + host.blocks < MaxCalls
    /\ \E sampleRate \in HostSampleRates, samplesPerBlock \in BlockSizes :
         audio' = [audio EXCEPT !.pc = "load1",
                                !.caller = "prepareToPlay",
                                !.sampleRate = sampleRate,
                                !.samplesPerBlock = samplesPerBlock,
                                !.chainSettings = ChainSettings,
                                !.done = {},
                                !.trace = <<>>]
    /\ leftChain' = prepareChain(leftChain)
    /\ rightChain' = prepareChain(rightChain)
    /\ host' = [host EXCEPT !.prepares = @ + 1, !.seen = Seen(apvts)]
    /\ UNCHANGED <<fifoVars, collectorVars, cutVars, apvts, buffer,
                   leftChannelFifo, rightChannelFifo>>

\* processBlock up to the call of updateFilters, on the host's next block:
\* as many outputs as inputs, so no channel is cleared.
ProcessBlock ==
    /\ audio.pc = "idle"
    /\ host.prepares + host.blocks < MaxCalls
    /\ \E n \in 1 .. audio.samplesPerBlock :
         /\ buffer' = StereoBlock(host.fed, n)
         /\ host' = [host EXCEPT !.blocks = @ + 1, !.fed = @ + n,
                                 !.seen = Seen(apvts)]
    /\ audio' = [audio EXCEPT !.pc = "load1",
                              !.caller = "processBlock",
                              !.chainSettings = ChainSettings,
                              !.done = {},
                              !.trace = <<>>]
    /\ UNCHANGED <<fifoVars, collectorVars, cutVars, apvts, leftChain,
                   rightChain, leftChannelFifo, rightChannelFifo>>

\* getChainSettings: lowCutFreq and highCutFreq
LoadCutFreqs ==
    /\ audio.pc = "load1"
    /\ audio' = [audio EXCEPT
          !.chainSettings = loadSettings(@, apvts, 1, 2),
          !.pc = nextStatement(audio.pc, audio.caller)]
    /\ UNCHANGED <<fifoVars, collectorVars, cutVars, apvts, host, leftChain,
                   rightChain, buffer, leftChannelFifo, rightChannelFifo>>

\* getChainSettings: the Freq, Gain and Quality of Peak1..Peak5
LoadPeaks ==
    /\ audio.pc = "load2"
    /\ audio' = [audio EXCEPT
          !.chainSettings = loadSettings(@, apvts, 3, 17),
          !.pc = nextStatement(audio.pc, audio.caller)]
    /\ UNCHANGED <<fifoVars, collectorVars, cutVars, apvts, host, leftChain,
                   rightChain, buffer, leftChannelFifo, rightChannelFifo>>

\* getChainSettings: lowCutSlope and highCutSlope
LoadSlopes ==
    /\ audio.pc = "load3"
    /\ audio' = [audio EXCEPT
          !.chainSettings = loadSettings(@, apvts, 18, 19),
          !.trace = @ \o updateEvents(audio.pc),
          !.pc = nextStatement(audio.pc, audio.caller)]
    /\ UNCHANGED <<fifoVars, collectorVars, cutVars, apvts, host, leftChain,
                   rightChain, buffer, leftChannelFifo, rightChannelFifo>>

\* updateCutFilter<LowCut>: makeCutFilter, then the left cascade
UpdateLowCutLeft ==
    /\ audio.pc = "lowL"
    /\ LET chainSettings == audio.chainSettings
           slope == chainSettings["LowCut Slope"]
           cutCoefficients ==
               makeCutFilter(chainSettings["LowCut Freq"], audio.sampleRate,
                             slope, HighPass)
       IN  /\ leftChain' = [leftChain EXCEPT
                 !.LowCut = applyCoefficientsToCutFilter(
                               @, cutCoefficients, slope,
                               lowCutIsOff(chainSettings))]
           /\ audio' = [audio EXCEPT
                 !.cutCoefficients = cutCoefficients,
                 !.done = @ \cup {"lowL"},
                 !.trace = @ \o updateEvents(audio.pc),
                 !.pc = nextStatement(audio.pc, audio.caller)]
    /\ UNCHANGED <<fifoVars, collectorVars, cutVars, apvts, host, rightChain,
                   buffer, leftChannelFifo, rightChannelFifo>>

\* updateCutFilter<LowCut>: the right cascade
UpdateLowCutRight ==
    /\ audio.pc = "lowR"
    /\ LET chainSettings == audio.chainSettings
       IN  rightChain' = [rightChain EXCEPT
              !.LowCut = applyCoefficientsToCutFilter(
                            @, audio.cutCoefficients,
                            chainSettings["LowCut Slope"],
                            lowCutIsOff(chainSettings))]
    /\ audio' = [audio EXCEPT
          !.done = @ \cup {"lowR"},
          !.trace = @ \o updateEvents(audio.pc),
          !.pc = nextStatement(audio.pc, audio.caller)]
    /\ UNCHANGED <<fifoVars, collectorVars, cutVars, apvts, host, leftChain,
                   buffer, leftChannelFifo, rightChannelFifo>>

\* updatePeakFilter
UpdatePeak ==
    /\ audio.pc = "peak"
    /\ LET r == updatePeakFilter(audio.chainSettings, audio.sampleRate,
                                 [left |-> leftChain, right |-> rightChain])
       IN  /\ leftChain' = r.left
           /\ rightChain' = r.right
    /\ audio' = [audio EXCEPT
          !.done = @ \cup {"peak"},
          !.trace = @ \o updateEvents(audio.pc),
          !.pc = nextStatement(audio.pc, audio.caller)]
    /\ UNCHANGED <<fifoVars, collectorVars, cutVars, apvts, host, buffer,
                   leftChannelFifo, rightChannelFifo>>

\* updateCutFilter<HighCut>: makeCutFilter, then the left cascade
UpdateHighCutLeft ==
    /\ audio.pc = "highL"
    /\ LET chainSettings == audio.chainSettings
           slope == chainSettings["HighCut Slope"]
           cutCoefficients ==
               makeCutFilter(chainSettings["HighCut Freq"], audio.sampleRate,
                             slope, LowPass)
       IN  /\ leftChain' = [leftChain EXCEPT
                 !.HighCut = applyCoefficientsToCutFilter(
                                @, cutCoefficients, slope,
                                highCutIsOff(chainSettings))]
           /\ audio' = [audio EXCEPT
                 !.cutCoefficients = cutCoefficients,
                 !.done = @ \cup {"highL"},
                 !.trace = @ \o updateEvents(audio.pc),
                 !.pc = nextStatement(audio.pc, audio.caller)]
    /\ UNCHANGED <<fifoVars, collectorVars, cutVars, apvts, host, rightChain,
                   buffer, leftChannelFifo, rightChannelFifo>>

\* updateCutFilter<HighCut>: the right cascade; updateFilters returns
UpdateHighCutRight ==
    /\ audio.pc = "highR"
    /\ LET chainSettings == audio.chainSettings
       IN  rightChain' = [rightChain EXCEPT
              !.HighCut = applyCoefficientsToCutFilter(
                             @, audio.cutCoefficients,
                             chainSettings["HighCut Slope"],
                             highCutIsOff(chainSettings))]
    /\ audio' = [audio EXCEPT
          !.done = @ \cup {"highR"},
          !.trace = @ \o updateEvents(audio.pc),
          !.updates = @ + 1,
          !.pc = nextStatement(audio.pc, audio.caller)]
    /\ host' = [host EXCEPT !.seen = Seen(apvts)]
    /\ UNCHANGED <<fifoVars, collectorVars, cutVars, apvts, leftChain,
                   buffer, leftChannelFifo, rightChannelFifo>>


\* prepareToPlay: leftChannelFifo.prepare(samplesPerBlock)
PrepareFifoLeft ==
    /\ audio.pc = "fifoL"
    /\ leftChannelFifo' = prepareBegin(leftChannelFifo, audio.samplesPerBlock)
    /\ audio' = [audio EXCEPT !.pc = nextStatement(audio.pc, audio.caller)]
    /\ UNCHANGED <<fifoVars, collectorVars, cutVars, apvts, host, leftChain,
                   rightChain, buffer, rightChannelFifo>>

\* leftChannelFifo.prepare: the rest of it
PrepareFifoLeftEnd ==
    /\ audio.pc = "fifoLEnd"
    /\ leftChannelFifo' = prepareEnd(leftChannelFifo, audio.samplesPerBlock)
    /\ audio' = [audio EXCEPT !.pc = nextStatement(audio.pc, audio.caller)]
    /\ UNCHANGED <<fifoVars, collectorVars, cutVars, apvts, host, leftChain,
                   rightChain, buffer, rightChannelFifo>>

\* prepareToPlay: rightChannelFifo.prepare(samplesPerBlock)
PrepareFifoRight ==
    /\ audio.pc = "fifoR"
    /\ rightChannelFifo' = prepareBegin(rightChannelFifo, audio.samplesPerBlock)
    /\ audio' = [audio EXCEPT !.pc = nextStatement(audio.pc, audio.caller)]
    /\ UNCHANGED <<fifoVars, collectorVars, cutVars, apvts, host, leftChain,
                   rightChain, buffer, leftChannelFifo>>

\* rightChannelFifo.prepare: the rest of it, and prepareToPlay returns
PrepareFifoRightEnd ==
    /\ audio.pc = "fifoREnd"
    /\ rightChannelFifo' = prepareEnd(rightChannelFifo, audio.samplesPerBlock)
    /\ audio' = [audio EXCEPT !.pc = nextStatement(audio.pc, audio.caller)]
    /\ UNCHANGED <<fifoVars, collectorVars, cutVars, apvts, host, leftChain,
                   rightChain, buffer, leftChannelFifo>>

\* processBlock: leftChain.process(leftContext), in place on channel 0
ProcessLeft ==
    /\ audio.pc = "procL"
    /\ LET r == chainProcess(leftChain, buffer.data[1])
       IN  /\ leftChain' = r.chain
           /\ buffer' = [buffer EXCEPT !.data[1] = r.block]
    /\ audio' = [audio EXCEPT !.pc = nextStatement(audio.pc, audio.caller)]
    /\ UNCHANGED <<fifoVars, collectorVars, cutVars, apvts, host, rightChain,
                   leftChannelFifo, rightChannelFifo>>

\* processBlock: rightChain.process(rightContext), in place on channel 1
ProcessRight ==
    /\ audio.pc = "procR"
    /\ LET r == chainProcess(rightChain, buffer.data[2])
       IN  /\ rightChain' = r.chain
           /\ buffer' = [buffer EXCEPT !.data[2] = r.block]
    /\ audio' = [audio EXCEPT !.pc = nextStatement(audio.pc, audio.caller)]
    /\ UNCHANGED <<fifoVars, collectorVars, cutVars, apvts, host, leftChain,
                   leftChannelFifo, rightChannelFifo>>

\* processBlock: leftChannelFifo.update(buffer)
CollectLeft ==
    /\ audio.pc = "collL"
    /\ leftChannelFifo' = updateCollector(leftChannelFifo, buffer).c
    /\ audio' = [audio EXCEPT !.pc = nextStatement(audio.pc, audio.caller)]
    /\ UNCHANGED <<fifoVars, collectorVars, cutVars, apvts, host, leftChain,
                   rightChain, buffer, rightChannelFifo>>

\* processBlock: rightChannelFifo.update(buffer), and return
CollectRight ==
    /\ audio.pc = "collR"
    /\ rightChannelFifo' = updateCollector(rightChannelFifo, buffer).c
    /\ audio' = [audio EXCEPT !.pc = nextStatement(audio.pc, audio.caller)]
    /\ UNCHANGED <<fifoVars, collectorVars, cutVars, apvts, host, leftChain,
                   rightChain, buffer, leftChannelFifo>>

NextProc ==
    \/ SetParameter
    \/ PrepareToPlay
    \/ ProcessBlock
    \/ LoadCutFreqs
    \/ LoadPeaks
    \/ LoadSlopes
    \/ UpdateLowCutLeft
    \/ UpdateLowCutRight
    \/ UpdatePeak
    \/ UpdateHighCutLeft
    \/ UpdateHighCutRight
    \/ PrepareFifoLeft
    \/ PrepareFifoLeftEnd
    \/ PrepareFifoRight
    \/ PrepareFifoRightEnd
    \/ ProcessLeft
    \/ ProcessRight
    \/ CollectLeft
    \/ CollectRight

SpecProc == InitProc /\ [][NextProc]_vars

\* updateFilters has returned at least once and is not running.
AfterUpdateFilters == audio.updates > 0 /\ audio.pc \notin UpdateSteps

AllBypassed(cut) == \A i \in Stages : cut.bypassed[i]

\* C2: after every updateFilters call, a low-cut frequency of the snapshot
\* inside low_cut_off_range [0, 6) leaves all 8 stages of the low-cut cascade
\* bypassed in both chains, whatever the low-cut slope; a high-cut frequency
\* inside high_cut_off_range [21500, 22001) does the same for the high-cut
\* cascade.
C2_OffRangeBypassesAll ==
    AfterUpdateFilters
    => /\ (0 <= audio.chainSettings["LowCut Freq"]
             /\ audio.chainSettings["LowCut Freq"] < 6)
          => (AllBypassed(leftChain.LowCut) /\ AllBypassed(rightChain.LowCut))
       /\ (21500 <= audio.chainSettings["HighCut Freq"]
             /\ audio.chainSettings["HighCut Freq"] < 22001)
          => (AllBypassed(leftChain.HighCut) /\ AllBypassed(rightChain.HighCut))

\* An update has run with the steepest low-cut slope and the low-cut frequency
\* in the off range, and beside it a high cut that is on.
C2_Witness ==
    /\ AfterUpdateFilters
    /\ audio.chainSettings["LowCut Freq"] = 5
    /\ audio.chainSettings["LowCut Slope"] = 7
    /\ AllBypassed(leftChain.LowCut)
    /\ AllBypassed(rightChain.LowCut)

\* What updateFilters installs in a cascade for a frequency and a slope.
CutInstalled(cut, cutFreq, slope, isOff, sampleRate, filterDesignMethod) ==
    \A i \in Stages :
       /\ cut.bypassed[i] <=> (isOff \/ i > slope)
       /\ ~cut.bypassed[i]
          => cut.filters[i].coefficients =
               makeCutFilter(cutFreq, sampleRate, slope, filterDesignMethod)[i + 1]

\* What updateFilters installs in a chain for a snapshot.
ChainInstalled(chain, chainSettings, sampleRate) ==
    /\ CutInstalled(chain.LowCut, chainSettings["LowCut Freq"],
                    chainSettings["LowCut Slope"],
                    chainSettings["LowCut Freq"] < 6, sampleRate, HighPass)
    /\ \A k \in Peaks :
          chain.Peak[k].coefficients =
             makePeakFilter(chainSettings[PeakFreq[k]],
                            chainSettings[PeakQuality[k]],
                            chainSettings[PeakGain[k]], sampleRate)
    /\ CutInstalled(chain.HighCut, chainSettings["HighCut Freq"],
                    chainSettings["HighCut Slope"],
                    chainSettings["HighCut Freq"] >= 21500, sampleRate, LowPass)

\* C8: in every processBlock call, when leftChain.process or
\* rightChain.process is about to handle the block, updateFilters has written
\* every cascade and Peak of both chains: both chains hold what this block's
\* snapshot designs, none the previous block's, and no cascade is in the
\* all-bypassed state of a half-finished update.
C8_UpdateBeforeProcess ==
    audio.pc \in {"procL", "procR"}
    => /\ audio.caller = "processBlock"
       /\ audio.done = ChainWrites
       /\ ChainInstalled(leftChain, audio.chainSettings, audio.sampleRate)
       /\ ChainInstalled(rightChain, audio.chainSettings, audio.sampleRate)

\* The left chain has processed its channel of a block whose snapshot differs
\* from the one prepareToPlay installed, and the right chain is about to.
C8_Witness ==
    /\ audio.pc = "procR"
    /\ host.writes > 0
    /\ audio.chainSettings # createParameterLayout
    /\ buffer.data[1] # StereoBlock(host.fed - buffer.numSamples,
                                    buffer.numSamples).data[1]

StereoLinked ==
    /\ leftChain.bypassed = rightChain.bypassed
    /\ leftChain.LowCut.bypassed = rightChain.LowCut.bypassed
    /\ leftChain.HighCut.bypassed = rightChain.HighCut.bypassed
    /\ \A i \in Stages :
          /\ leftChain.LowCut.filters[i].coefficients
               = rightChain.LowCut.filters[i].coefficients
          /\ leftChain.HighCut.filters[i].coefficients
               = rightChain.HighCut.filters[i].coefficients
    /\ \A k \in Peaks :
          leftChain.Peak[k].coefficients = rightChain.Peak[k].coefficients

\* C9: after every updateFilters call, from prepareToPlay or processBlock,
\* the left and the right chain hold equal coefficients and equal bypass
\* flags at every chain position and every cascade stage, whatever parameter
\* changes preceded the call.
C9_StereoLink == AfterUpdateFilters => StereoLinked

\* Two updates have run, the later one on changed parameters that leave a
\* cascade stage active with designed coefficients.
C9_Witness ==
    /\ AfterUpdateFilters
    /\ audio.updates >= 2
    /\ host.writes > 0
    /\ \/ ~leftChain.LowCut.bypassed[0]
       \/ ~leftChain.HighCut.bypassed[0]
    /\ StereoLinked


\* The designs in use: the array the last updateCutFilter got from
\* makeCutFilter (designed also when isOff), and the Peak coefficients of
\* both chains once makePeakFilter has designed them.
CutDesigns ==
    {audio.cutCoefficients[i] : i \in 1 .. Len(audio.cutCoefficients)}

PeakDesigns ==
    {c \in {leftChain.Peak[k].coefficients : k \in Peaks}
             \cup {rightChain.Peak[k].coefficients : k \in Peaks} :
       c # DefaultCoefficients}

\* C14: for every parameter valuation inside the declared ranges and every
\* host sample rate, no updateFilters run calls makeCutFilter or
\* makePeakFilter with a frequency <= 0 or >= sampleRate / 2, nor
\* makePeakFilter with Q <= 0.
C14_DesignInputsInRange ==
    /\ \A c \in CutDesigns : c[2] > 0 /\ 2 * c[2] < c[3]
    /\ \A c \in PeakDesigns : c[3] > 0 /\ 2 * c[3] < c[2] /\ c[4] > 0


Rank(op) ==
    CASE op = "snapshot" -> 0
      [] op = "design" -> 1
      [] op = "left" -> 2
      [] op = "right" -> 3

\* C15 (as stated): every updateFilters run goes snapshot -> design -> left
\* chain -> right chain: the snapshot first, all designs before the first
\* write to the left chain, every write to the left chain before every
\* write to the right chain.
C15_SnapshotDesignLeftRight ==
    \A i, j \in 1 .. Len(audio.trace) :
       i < j => Rank(audio.trace[i].op) <= Rank(audio.trace[j].op)

\* The group of filters a chain position is updated with: the low cut, the
\* five peaks, the high cut.
Group(position) == IF position = 0 THEN 0 ELSE IF position = 6 THEN 2 ELSE 1

\* C15 (amended): every updateFilters run takes the single snapshot first
\* and then handles the low cut, the five peaks and the high cut one group
\* after the other: a group's coefficients are designed before its first
\* write, all of a group's designs and writes precede the next group's, the
\* positions of a group are written in index order and each position is
\* written in the left chain and then in the right chain; a finished run has
\* designed and written every position of both chains once.
C15_GroupByGroup ==
    LET t == audio.trace
    IN  /\ \A i \in 1 .. Len(t) : (t[i].op = "snapshot") <=> (i = 1)
        /\ \A i, j \in 1 .. Len(t) :
              (i < j /\ i > 1)
              => \/ Group(t[i].position) < Group(t[j].position)
                 \/ /\ Group(t[i].position) = Group(t[j].position)
                    /\ t[i].op = "design"
                    /\ t[j].op = "design" => t[i].position < t[j].position
                 \/ /\ Group(t[i].position) = Group(t[j].position)
                    /\ t[i].op # "design"
                    /\ t[j].op # "design"
                    /\ \/ t[i].position < t[j].position
                       \/ /\ t[i].position = t[j].position
                          /\ t[i].op = "left"
                          /\ t[j].op = "right"
        /\ AfterUpdateFilters
           => \A position \in ChainPositions :
                 \A op \in {"design", "left", "right"} :
                    Cardinality({i \in 1 .. Len(t) :
                                   t[i] = Event(op, position)}) = 1

\* An update made by processBlock after a parameter write has finished.
C15_Witness ==
    /\ AfterUpdateFilters
    /\ audio.caller = "processBlock"
    /\ host.writes > 0
    /\ Len(audio.trace) = 22
    /\ audio.trace[3] = Event("left", 0)
    /\ audio.trace[4] = Event("right", 0)
    /\ audio.trace[5] = Event("design", 1)


\* The block the host handed to the running or last processBlock, as it was
\* on entry.
RawBlock == StereoBlock(host.fed - buffer.numSamples, buffer.numSamples)

\* The sample a collector stored last.
LastStored(c) == c.bufferToFill.data[1][c.fifoIndex]

\* C16: the samples processBlock hands to the left and right collectors are
\* the raw input samples of the block, the buffer content as it was before
\* the chains filtered it in place.
C16_CollectorsGetRaw ==
    audio.caller = "processBlock"
    => /\ audio.pc \in {"collR", "idle"}
          => LastStored(leftChannelFifo)
               = RawBlock.data[leftChannelFifo.channelToUse + 1][RawBlock.numSamples]
       /\ audio.pc = "idle"
          => LastStored(rightChannelFifo)
               = RawBlock.data[rightChannelFifo.channelToUse + 1][RawBlock.numSamples]


(***************************************************************************)
(* One channel chain: updateFilters installs a snapshot, process filters   *)
(* the channel's samples of a block in place.                              *)
(***************************************************************************)
\* Snapshots with each cut on or off, the low cut with one, two or all
\* stages, the high cut with one or two, Peak1 flat or boosted.
ChainValuations ==
    {[createParameterLayout EXCEPT !["LowCut Freq"] = lowCutFreq,
                                   !["LowCut Slope"] = lowCutSlope,
                                   !["Peak1 Gain"] = peak1Gain,
                                   !["HighCut Freq"] = highCutFreq,
                                   !["HighCut Slope"] = highCutSlope] :
       lowCutFreq \in {5, 1000}, lowCutSlope \in {0, 1, 7},
       peak1Gain \in {0, 12},
       highCutFreq \in {1000, 22000}, highCutSlope \in {0, 1}}

InitChain == InitFifoVars /\ InitCollectorVars /\ InitCutVars /\ InitProcVars

\* updateFilters, on the left chain
ChainUpdateFilters ==
    /\ host.writes < MaxWrites
    /\ \E chainSettings \in ChainValuations, sampleRate \in SampleRates :
          leftChain' = updateFiltersOn(leftChain, chainSettings, sampleRate)
    /\ host' = [host EXCEPT !.writes = @ + 1]
    /\ UNCHANGED <<fifoVars, collectorVars, cutVars, apvts, audio, rightChain,
                   buffer, leftChannelFifo, rightChannelFifo>>

\* leftChain.process(leftContext) on channel 0 of the host's next block
ChainProcess ==
    /\ host.blocks < MaxBlocks
    /\ \E n \in 1 .. MaxBlockSize :
          LET raw == StereoBlock(host.fed, n)
              r == chainProcess(leftChain, raw.data[1])
          IN  /\ leftChain' = r.chain
              /\ buffer' = [raw EXCEPT !.data[1] = r.block]
              /\ host' = [host EXCEPT !.blocks = @ + 1, !.fed = @ + n]
    /\ UNCHANGED <<fifoVars, collectorVars, cutVars, apvts, audio, rightChain,
                   leftChannelFifo, rightChannelFifo>>

NextChain == ChainUpdateFilters \/ ChainProcess

SpecChain == InitChain /\ [][NextChain]_vars

\* The 21 stages of a chain in the order low cut 0..7, Peak1..Peak5, high
\* cut 0..7, each with whether it is bypassed and its Filter.
StageList(chain) ==
    [i \in 1 .. 21 |->
       IF i <= 8
       THEN [skip |-> chain.bypassed[0] \/ chain.LowCut.bypassed[i - 1],
             f |-> chain.LowCut.filters[i - 1]]
       ELSE IF i <= 13
            THEN [skip |-> chain.bypassed[i - 8], f |-> chain.Peak[i - 8]]
            ELSE [skip |-> chain.bypassed[6] \/ chain.HighCut.bypassed[i - 14],
                  f |-> chain.HighCut.filters[i - 14]]]

\* The stages with the order of every Filter in use brought up to date.
Checked(stages) ==
    [i \in 1 .. Len(stages) |->
       IF stages[i].skip THEN stages[i]
       ELSE [stages[i] EXCEPT !.f = check(@)]]

\* One sample through the stages from stage i on: a stage gets the output
\* of the stage before it, a bypassed stage hands its input on untouched.
RECURSIVE ThroughStages(_, _, _)
ThroughStages(stages, i, x) ==
    IF i > Len(stages)
    THEN [stages |-> stages, x |-> x]
    ELSE IF stages[i].skip
         THEN ThroughStages(stages, i + 1, x)
         ELSE LET f == stages[i].f
              IN  ThroughStages(
                    [stages EXCEPT
                       ![i].f.state = IIRState(f.coefficients, f.state, x)],
                    i + 1,
                    IIROut(f.coefficients, f.state, x))

\* The samples of block from s on, one after the other through all stages.
RECURSIVE SampleBySample(_, _, _, _)
SampleBySample(stages, block, s, done) ==
    IF s > Len(block)
    THEN [stages |-> stages, block |-> done]
    ELSE LET r == ThroughStages(stages, 1, block[s])
         IN  SampleBySample(r.stages, block, s + 1, Append(done, r.x))

\* C17: processing a block through a channel chain applies the low-cut
\* stages 0..7 in index order, then Peak1..Peak5, then the high-cut stages
\* 0..7: for every sample a stage receives the output of the stage before
\* it, and a bypassed stage passes the sample on unchanged (and keeps its
\* own state).
C17_StageOrder ==
    [][host'.blocks = host.blocks + 1
       => LET raw == StereoBlock(host.fed, buffer'.numSamples)
              r == SampleBySample(Checked(StageList(leftChain)),
                                  raw.data[1], 1, <<>>)
          IN  /\ buffer'.data[1] = r.block
              /\ StageList(leftChain') = r.stages]_vars

\* A block of two samples has gone through a chain with two low-cut stages,
\* a boosted Peak1 and one high-cut stage, the other stages bypassed or flat.
C17_Witness ==
    /\ host.blocks > 0
    /\ buffer.numSamples = 2
    /\ Active(leftChain.LowCut) = {0, 1}
    /\ ~Unity(leftChain.Peak[1].coefficients)
    /\ Active(leftChain.HighCut) = {0}
    /\ buffer.data[1] # StereoBlock(host.fed - 2, 2).data[1]


\* Parameter p has kept its value since the running updateFilters was
\* entered.
Settled(p) == host.seen[p] = {apvts[p]}

\* C18: a parameter written by another thread and then left alone is in the
\* snapshot of the first updateFilters that starts after the write: when
\* updateFilters is at its last statement, the snapshot holds the current
\* value of every parameter not written during the run and no value older
\* than the one current when the run started.  What the run designs from
\* the snapshot is installed in both chains when it has returned, so the
\* block that starts after the write is processed with it (so is the
\* second, the claim's bound).
C18_WriteReflected ==
    /\ audio.pc = "highR"
       => \A p \in ParamNames :
             /\ Settled(p) => audio.chainSettings[p] = apvts[p]
             /\ audio.chainSettings[p] \in host.seen[p]
    /\ (audio.updates > 0 /\ audio.pc \notin UpdateSteps)
       => /\ ChainInstalled(leftChain, audio.chainSettings, audio.sampleRate)
          /\ ChainInstalled(rightChain, audio.chainSettings, audio.sampleRate)

\* processBlock is about to process a block with a parameter value written
\* before its updateFilters started and not touched since.
C18_Witness ==
    /\ audio.pc = "procL"
    /\ audio.caller = "processBlock"
    /\ apvts # createParameterLayout
    /\ audio.chainSettings = apvts

\* The prepare calls of prepareToPlay that have not yet started (or, with
\* "End", not yet finished) when the thread is at pc.
ToPrepare(pc) ==
    CASE pc \in UpdateSteps \cup {"fifoL"} -> {"left", "right"}
      [] pc = "fifoLEnd" -> {"leftEnd", "right"}
      [] pc = "fifoR" -> {"right"}
      [] pc = "fifoREnd" -> {"rightEnd"}
      [] OTHER -> {}

\* No prepare of the collector has completed yet, or one is in progress.
Unprepared(side) ==
    \/ host.prepares = 0
    \/ /\ audio.caller = "prepareToPlay"
       /\ \/ host.prepares = 1 /\ side \in ToPrepare(audio.pc)
          \/ (side \o "End") \in ToPrepare(audio.pc)

\* C20: the prepared flag of a collector is false exactly before its first
\* prepare has completed and while a prepare is in progress, and an update
\* called then fails the assertion at its entry; the update calls of
\* processBlock, which the host makes after prepareToPlay has returned, all
\* pass it.
C20_UpdateNeedsPrepared ==
    /\ leftChannelFifo.prepared <=> ~Unprepared("left")
    /\ rightChannelFifo.prepared <=> ~Unprepared("right")
    /\ \A n \in 0 .. MaxBlockSize :
          /\ Unprepared("left")
                => ~updateAsserts(leftChannelFifo, StereoBlock(host.fed, n))
          /\ Unprepared("right")
                => ~updateAsserts(rightChannelFifo, StereoBlock(host.fed, n))
    /\ audio.pc = "collL" => updateAsserts(leftChannelFifo, buffer)
    /\ audio.pc = "collR" => updateAsserts(rightChannelFifo, buffer)

\* processBlock has called leftChannelFifo.update and is about to call
\* rightChannelFifo.update.
C20_Witness ==
    /\ audio.pc = "collR"
    /\ audio.caller = "processBlock"
    /\ leftChannelFifo.fifoIndex = 1
    /\ rightChannelFifo.prepared

\* C27: in processBlock leftChannelFifo collects the samples of the buffer
\* channel leftChain processes, channel 0, and rightChannelFifo those of
\* the channel rightChain processes, channel 1.
C27_CollectorsMatchChains ==
    audio.caller = "processBlock"
    => /\ audio.pc \in {"collR", "idle"}
          => LastStored(leftChannelFifo) = buffer.data[1][buffer.numSamples]
       /\ audio.pc = "idle"
          => LastStored(rightChannelFifo) = buffer.data[2][buffer.numSamples]

(***************************************************************************)
(* The processor under the bus layouts the host may set: the host asks     *)
(* isBusesLayoutSupported, sets a layout it accepts, and hands processBlock *)
(* blocks with the channels of that layout.  A channel index past the      *)
(* buffer's channels is an out-of-bounds access: the call crashes or goes  *)
(* on with whatever the memory holds.                                      *)
(***************************************************************************)
ChannelSets == {"disabled", "mono", "stereo", "LCR"}

\* juce::AudioChannelSet::size
size(channelSet) ==
    CASE channelSet = "disabled" -> 0
      [] channelSet = "mono" -> 1
      [] channelSet = "stereo" -> 2
      [] channelSet = "LCR" -> 3

\* SimpleEQAudioProcessor::isBusesLayoutSupported
isBusesLayoutSupported(layouts) ==
    IF layouts.out # "mono" /\ layouts.out # "stereo"
    THEN FALSE
    ELSE IF layouts.out # layouts.in
         THEN FALSE
         ELSE TRUE

\* The host's next block of n samples under the layout: the first channels
\* of StereoBlock.
LayoutBlock(layouts, first, n) ==
    LET numChannels == size(layouts.out)
        stereo == StereoBlock(first, n)
    IN  [numChannels |-> numChannels,
         numSamples |-> n,
         data |-> SubSeq(stereo.data, 1, numChannels)]

\* What a read past the buffer's channels may find.
Garbage == {<<0>>, <<0 - 1>>}

\* juce::dsp::AudioBlock::getSingleChannelBlock (channel) is inside the block
HasChannel(audioBuffer, channel) == channel < audioBuffer.numChannels

InitLayout == InitFifoVars /\ InitCollectorVars /\ InitCutVars /\ InitProcVars

\* The host sets a bus layout that isBusesLayoutSupported accepts.
LayoutSet ==
    /\ audio.pc \in {"constructed", "idle"}
    /\ \E input \in ChannelSets, output \in ChannelSets :
          LET layouts == [in |-> input, out |-> output]
          IN  /\ isBusesLayoutSupported(layouts)
              /\ host' = [host EXCEPT !.layout = layouts]
    /\ UNCHANGED <<fifoVars, collectorVars, cutVars, apvts, audio, leftChain,
                   rightChain, buffer, leftChannelFifo, rightChannelFifo>>

\* prepareToPlay
LayoutPrepareToPlay ==
    /\ audio.pc \in {"constructed", "idle"}
    /\ host.prepares + host.blocks < MaxCalls
    /\ \E sampleRate \in HostSampleRates, samplesPerBlock \in 1 .. MaxBlockSize :
          /\ audio' = [audio EXCEPT !.pc = "idle",
                                    !.caller = "prepareToPlay",
                                    !.sampleRate = sampleRate,
                                    !.samplesPerBlock = samplesPerBlock,
                                    !.chainSettings = apvts,
                                    !.updates = @ + 1]
          /\ leftChain' = updateFiltersOn(prepareChain(leftChain), apvts,
                                          sampleRate)
          /\ rightChain' = updateFiltersOn(prepareChain(rightChain), apvts,
                                           sampleRate)
          /\ leftChannelFifo' = prepareCollector(leftChannelFifo, samplesPerBlock)
          /\ rightChannelFifo' = prepareCollector(rightChannelFifo, samplesPerBlock)
    /\ host' = [host EXCEPT !.prepares = @ + 1]
    /\ UNCHANGED <<fifoVars, collectorVars, cutVars, apvts, buffer>>

\* processBlock up to leftChain.process: in and out have the same channels,
\* so no channel is cleared; updateFilters
LayoutProcessBlock ==
    /\ audio.pc = "idle"
    /\ host.prepares + host.blocks < MaxCalls
    /\ \E n \in 1 .. audio.samplesPerBlock :
          /\ buffer' = LayoutBlock(host.layout, host.fed, n)
          /\ host' = [host EXCEPT !.blocks = @ + 1, !.fed = @ + n]
    /\ audio' = [audio EXCEPT !.pc = "procL",
                              !.caller = "processBlock",
                              !.chainSettings = apvts,
                              !.updates = @ + 1]
    /\ leftChain' = updateFiltersOn(leftChain, apvts, audio.sampleRate)
    /\ rightChain' = updateFiltersOn(rightChain, apvts, audio.sampleRate)
    /\ UNCHANGED <<fifoVars, collectorVars, cutVars, apvts, leftChannelFifo,
                   rightChannelFifo>>

\* leftChain.process on block.getSingleChannelBlock(0)
LayoutProcessLeft ==
    /\ audio.pc = "procL"
    /\ IF HasChannel(buffer, 0)
       THEN LET r == chainProcess(leftChain, buffer.data[1])
            IN  /\ leftChain' = r.chain
                /\ buffer' = [buffer EXCEPT !.data[1] = r.block]
                /\ audio' = [audio EXCEPT !.pc = "procR"]
       ELSE /\ UNCHANGED <<leftChain, buffer>>
            /\ \E pc \in {"crashed", "procR"} :
                  audio' = [audio EXCEPT !.pc = pc]
    /\ UNCHANGED <<fifoVars, collectorVars, cutVars, apvts, host, rightChain,
                   leftChannelFifo, rightChannelFifo>>

\* rightChain.process on block.getSingleChannelBlock(1)
LayoutProcessRight ==
    /\ audio.pc = "procR"
    /\ IF HasChannel(buffer, 1)
       THEN LET r == chainProcess(rightChain, buffer.data[2])
            IN  /\ rightChain' = r.chain
                /\ buffer' = [buffer EXCEPT !.data[2] = r.block]
                /\ audio' = [audio EXCEPT !.pc = "collL"]
       ELSE /\ UNCHANGED <<rightChain, buffer>>
            /\ \E pc \in {"crashed", "collL"} :
                  audio' = [audio EXCEPT !.pc = pc]
    /\ UNCHANGED <<fifoVars, collectorVars, cutVars, apvts, host, leftChain,
                   leftChannelFifo, rightChannelFifo>>

\* What update leaves of collector c: with a channel past the buffer's it
\* reads what the memory holds, or crashes.
LayoutUpdate(c, next) ==
    IF updateAsserts(c, buffer)
    THEN [c |-> {updateCollector(c, buffer).c}, pc |-> {next}]
    ELSE [c |-> {updateCollector(
                    c, [buffer EXCEPT
                          !.data = [ch \in 1 .. c.channelToUse + 1 |->
                                      [i \in 1 .. buffer.numSamples |-> g]]]).c :
                    g \in Garbage},
          pc |-> {"crashed", next}]

\* leftChannelFifo.update(buffer)
LayoutCollectLeft ==
    /\ audio.pc = "collL"
    /\ LET r == LayoutUpdate(leftChannelFifo, "collR")
       IN  /\ leftChannelFifo' \in r.c
           /\ \E pc \in r.pc : audio' = [audio EXCEPT !.pc = pc]
    /\ UNCHANGED <<fifoVars, collectorVars, cutVars, apvts, host, leftChain,
                   rightChain, buffer, rightChannelFifo>>

\* rightChannelFifo.update(buffer), and processBlock returns
LayoutCollectRight ==
    /\ audio.pc = "collR"
    /\ LET r == LayoutUpdate(rightChannelFifo, "idle")
       IN  /\ rightChannelFifo' \in r.c
           /\ \E pc \in r.pc : audio' = [audio EXCEPT !.pc = pc]
    /\ UNCHANGED <<fifoVars, collectorVars, cutVars, apvts, host, leftChain,
                   rightChain, buffer, leftChannelFifo>>

NextLayout ==
    \/ LayoutSet
    \/ LayoutPrepareToPlay
    \/ LayoutProcessBlock
    \/ LayoutProcessLeft
    \/ LayoutProcessRight
    \/ LayoutCollectLeft
    \/ LayoutCollectRight

SpecLayout == InitLayout /\ [][NextLayout]_vars

\* C28: under every bus layout isBusesLayoutSupported accepts, the channel
\* indices processBlock and the two collectors' update access are smaller
\* than the channel count of the buffer, and the assertions at the entry of
\* update hold.
C28_ChannelsInRange ==
    /\ isBusesLayoutSupported(host.layout)
    /\ audio.pc # "crashed"
    /\ audio.pc = "procL" => HasChannel(buffer, 0)
    /\ audio.pc = "procR" => HasChannel(buffer, 1)
    /\ audio.pc = "collL"
         => /\ HasChannel(buffer, leftChannelFifo.channelToUse)
            /\ updateAsserts(leftChannelFifo, buffer)
    /\ audio.pc = "collR"
         => /\ HasChannel(buffer, rightChannelFifo.channelToUse)
            /\ updateAsserts(rightChannelFifo, buffer)

(***************************************************************************)
(* Two independent runs of update plus processing, the first on leftChain  *)
(* and the second on rightChain, both new, with the same snapshot, sample  *)
(* rate and input block, while the host goes on writing parameters.        *)
(***************************************************************************)
InitRuns == InitFifoVars /\ InitCollectorVars /\ InitCutVars /\ InitProcVars

\* The snapshot, the sample rate and the input block of the two runs: the
\* block is in both channels of buffer.
RunsInput ==
    /\ audio.pc = "constructed"
    /\ \E chainSettings \in ChainValuations, sampleRate \in HostSampleRates,
          n \in 1 .. MaxBlockSize :
          /\ audio' = [audio EXCEPT !.pc = "runs",
                                    !.chainSettings = chainSettings,
                                    !.sampleRate = sampleRate,
                                    !.samplesPerBlock = n]
          /\ buffer' = [StereoBlock(0, n) EXCEPT
                          !.data[2] = StereoBlock(0, n).data[1]]
    /\ UNCHANGED <<fifoVars, collectorVars, cutVars, apvts, host, leftChain,
                   rightChain, leftChannelFifo, rightChannelFifo>>

\* prepare, updateFilters and process on a new chain and one channel
Run(chain, channel) ==
    chainProcess(updateFiltersOn(prepareChain(chain), audio.chainSettings,
                                 audio.sampleRate),
                 channel)

RunFirst ==
    /\ audio.pc = "runs"
    /\ "first" \notin audio.done
    /\ LET r == Run(leftChain, buffer.data[1])
       IN  /\ leftChain' = r.chain
           /\ buffer' = [buffer EXCEPT !.data[1] = r.block]
    /\ audio' = [audio EXCEPT !.done = @ \cup {"first"}]
    /\ UNCHANGED <<fifoVars, collectorVars, cutVars, apvts, host, rightChain,
                   leftChannelFifo, rightChannelFifo>>

RunSecond ==
    /\ audio.pc = "runs"
    /\ "second" \notin audio.done
    /\ LET r == Run(rightChain, buffer.data[2])
       IN  /\ rightChain' = r.chain
           /\ buffer' = [buffer EXCEPT !.data[2] = r.block]
    /\ audio' = [audio EXCEPT !.done = @ \cup {"second"}]
    /\ UNCHANGED <<fifoVars, collectorVars, cutVars, apvts, host, leftChain,
                   leftChannelFifo, rightChannelFifo>>

NextRuns ==
    \/ RunsInput
    \/ RunFirst
    \/ RunSecond
    \/ SetParameter

SpecRuns == InitRuns /\ [][NextRuns]_vars

designAllocations(pc, chainSettings, sampleRate) ==
    CASE pc = "lowL" ->
           Len(makeCutFilter(chainSettings["LowCut Freq"], sampleRate,
                             chainSettings["LowCut Slope"], HighPass))
      [] pc = "peak" -> Cardinality(Peaks)
      [] pc = "highL" ->
           Len(makeCutFilter(chainSettings["HighCut Freq"], sampleRate,
                             chainSettings["HighCut Slope"], LowPass))
      [] OTHER -> 0

\* The slots that update(audioBuffer) of collector c resizes: those its
\* successful pushes write with a block of another size.
pushAllocations(c, audioBuffer) ==
    LET f == c.audioBufferFifo
        pushed == Accepted(updateCollector(c, audioBuffer).attempts)
    IN  Cardinality({j \in 1 .. Len(pushed) :
           LET slot == f.buffers[(f.validEnd + j - 1) % Capacity]
           IN  \/ slot.numChannels # pushed[j].numChannels
               \/ slot.numSamples # pushed[j].numSamples})

\* The allocations of the statement the thread is about to run.
allocations ==
    CASE audio.pc \in UpdateSteps ->
           designAllocations(audio.pc, audio.chainSettings, audio.sampleRate)
      [] audio.pc = "collL" -> pushAllocations(leftChannelFifo, buffer)
      [] audio.pc = "collR" -> pushAllocations(rightChannelFifo, buffer)
      [] OTHER -> 0

\* C21: no statement on the path of processBlock (the snapshot, the design
\* of the coefficients, their application, the processing of the chains,
\* the update of the collectors and its Fifo push) allocates memory.
C21_NoAllocationInProcessBlock ==
    audio.caller = "processBlock" => allocations = 0

====
